---- MODULE Spec2Model ----
(***************************************************************************)
(* Model of the layout and document-model core of md-tui:                  *)
(*   src/src/nodes/word.rs          Word, set_kind / clear_kind            *)
(*   src/src/nodes/textcomponent.rs TextComponent, the transforms          *)
(*   src/src/nodes/root.rs          ComponentRoot                          *)
(* A string is a sequence of one-character strings; "W" stands for a       *)
(* character two cells wide, "z" for a zero-width combining mark, "n" for  *)
(* the line feed, every other character is one cell wide.                  *)
(* The local variables of a loop go from one round to the next as values:  *)
(* CHOOSE res \in {F(v) : v \in {e}} : TRUE is F(e), with e evaluated once. *)
(***************************************************************************)
EXTENDS Integers, Sequences, FiniteSets, TLC

VARIABLES components, is_focused, ret, arg

vars == <<components, is_focused, ret, arg>>

\* ---------------------------------------------------------------- bounds
MaxBlocks == 2
MaxIndex == 4
MaxScroll == 1
MaxImageHeight == 2
MaxWrapWords == 2
MaxNewWords == 3
MaxListItems == 4
MaxCells == 4
MaxCols == 2

\* u16 arithmetic of the offsets: values are kept modulo 2^16
U16 == 65536

\* ------------------------------------------------------------- sequences
RECURSIVE SumSeq(_)
SumSeq(s) == IF s = <<>> THEN 0 ELSE Head(s) + SumSeq(Tail(s))

RECURSIVE Flatten(_)
Flatten(ss) == IF ss = <<>> THEN <<>> ELSE Head(ss) \o Flatten(Tail(ss))

RECURSIVE SeqsUpTo(_, _)
SeqsUpTo(S, n) ==
    IF n = 0 THEN {<<>>}
    ELSE LET shorter == SeqsUpTo(S, n - 1)
         IN  shorter \cup {Append(s, x) : s \in {t \in shorter : Len(t) = n - 1}, x \in S}

Min(a, b) == IF a < b THEN a ELSE b
Max(a, b) == IF a > b THEN a ELSE b

\* ------------------------------------------------------------------ Word
\* Word::new: no saved kind
NewWord(content, kind) == [content |-> content, kind |-> kind, prev |-> "None"]

\* Word::set_kind: the current kind is saved (overwriting any saved kind)
set_kind_nosave(w, kind) == [w EXCEPT !.kind = kind]
set_kind_saveonce(w, kind) ==
    [w EXCEPT !.prev = IF w.prev = "None" THEN w.kind ELSE w.prev, !.kind = kind]
set_kind(w, kind) == [w EXCEPT !.prev = w.kind, !.kind = kind]

\* Word::clear_kind: restore the saved kind if any, drop the saved value
clear_kind_keepsaved(w) == [w EXCEPT !.kind = IF w.prev = "None" THEN w.kind ELSE w.prev]
clear_kind(w) == [w EXCEPT !.kind = IF w.prev = "None" THEN w.kind ELSE w.prev,
                           !.prev = "None"]

MetaKinds == {"MetaOther", "MetaOList", "MetaUList", "MetaColumnsCount", "MetaPLanguage"}

\* Word::is_renderable
is_renderable(w) == w.kind \notin (MetaKinds \cup {"LinkData", "FootnoteData"})

\* the matches!(kind, Link | FootnoteInline) of link_words_mut
IsLinkWord(w) == w.kind \in {"Link", "FootnoteInline"}

\* the matches!(kind, LinkData | FootnoteInline) of num_links / highlight_link
IsLinkMeta(w) == w.kind \in {"LinkData", "FootnoteInline"}

\* the contents of the words, and the text they spell
Contents(words) == [k \in 1..Len(words) |-> words[k].content]

LineText(line) == Flatten(Contents(line))

\* --------------------------------------------------------- TextComponent
\* TextComponent::new
new(kind, words) ==
    [kind |-> kind, widths |-> <<>>, heights |-> <<>>,
     content |-> <<SelectSeq(words, is_renderable)>>,
     meta_info |-> SelectSeq(words,
                     LAMBDA c : ~is_renderable(c) \/ c.kind = "FootnoteInline"),
     height |-> 0, offset |-> 0, scroll_offset |-> 0,
     focused |-> FALSE, focused_index |-> 0]

RECURSIVE RenderableLines(_)
RenderableLines(lines) ==
    IF lines = <<>> THEN <<>>
    ELSE LET l == SelectSeq(Head(lines), is_renderable)
         IN  (IF l = <<>> THEN <<>> ELSE <<l>>) \o RenderableLines(Tail(lines))

\* TextComponent::new_formatted
new_formatted(kind, lines) ==
    LET content == RenderableLines(lines)
    IN  [kind |-> kind, widths |-> <<>>, heights |-> <<>>,
         content |-> content,
         meta_info |-> SelectSeq(Flatten(lines), LAMBDA c : ~is_renderable(c)),
         height |-> Len(content) % U16, offset |-> 0, scroll_offset |-> 0,
         focused |-> FALSE, focused_index |-> 0]

\* ImageComponent (src/nodes/image.rs is not part of the sources): a media
\* block reports a height and accepts a y offset and a scroll offset
NewImage(h) ==
    [kind |-> "Image", widths |-> <<>>, heights |-> <<>>,
     content |-> <<>>, meta_info |-> <<>>,
     height |-> h, offset |-> 0, scroll_offset |-> 0,
     focused |-> FALSE, focused_index |-> 0]

IsText(c) == c.kind # "Image"

\* TextComponent::num_links
num_links_words(comp) == Len(SelectSeq(Flatten(comp.content), IsLinkWord))
num_links(comp) == Len(SelectSeq(comp.meta_info, IsLinkMeta))

\* the index just past the run of link words that starts at i (take_while)
RECURSIVE RunEnd(_, _)
RunEnd(flat, i) ==
    IF i <= Len(flat) /\ IsLinkWord(flat[i]) THEN RunEnd(flat, i + 1) ELSE i

\* TextComponent::link_words_mut: the maximal runs of link words of the
\* flattened content, each run as the sequence of its flat indices.  The
\* take_while also consumes the word that ends the run.
RECURSIVE link_words_each(_, _)
link_words_each(flat, i) ==
    IF i > Len(flat) THEN <<>>
    ELSE IF IsLinkWord(flat[i]) THEN <<(<<i>>)>> \o link_words_each(flat, i + 1)
    ELSE link_words_each(flat, i + 1)
RECURSIVE link_words_from(_, _)
link_words_from(flat, i) ==
    IF i > Len(flat) THEN <<>>
    ELSE IF IsLinkWord(flat[i])
         THEN LET j == RunEnd(flat, i)
              IN  <<[k \in 1..(j - i) |-> i + k - 1]>> \o link_words_from(flat, j + 1)
         ELSE link_words_from(flat, i + 1)

link_words_mut(comp) == link_words_from(Flatten(comp.content), 1)

\* flat index of the first word of line l, minus one
RECURSIVE LineOffset(_, _)
LineOffset(content, l) ==
    IF l <= 1 THEN 0 ELSE Len(content[l - 1]) + LineOffset(content, l - 1)

\* apply f to the words whose flat index is in S
MapWords(content, S, f(_)) ==
    [l \in 1..Len(content) |->
        [k \in 1..Len(content[l]) |->
            IF (LineOffset(content, l) + k) \in S
            THEN f(content[l][k]) ELSE content[l][k]]]

AllFlat(content) == 1..Len(Flatten(content))

\* TextComponent::deselect
deselect_keepfocus(comp) ==
    [comp EXCEPT !.focused_index = 0,
        !.content = MapWords(comp.content, AllFlat(comp.content),
                      LAMBDA c : IF c.kind = "Selected" THEN clear_kind(c) ELSE c)]
deselect(comp) ==
    [comp EXCEPT !.focused = FALSE, !.focused_index = 0,
        !.content = MapWords(comp.content, AllFlat(comp.content),
                      LAMBDA c : IF c.kind = "Selected" THEN clear_kind(c) ELSE c)]

\* TextComponent::visually_select: index is 0-based as in the source
visually_select(comp, index) ==
    LET c1 == [comp EXCEPT !.focused = TRUE, !.focused_index = index]
        runs == link_words_mut(c1)
    IN  IF index >= num_links(c1)
        THEN [comp |-> c1, ok |-> FALSE,
              err |-> [kind |-> "OutOfBounds", index |-> index, count |-> num_links(c1)]]
        ELSE IF index + 1 > Len(runs)
        THEN [comp |-> c1, ok |-> FALSE,
              err |-> [kind |-> "NoSuchRun", index |-> index, count |-> Len(runs)]]
        ELSE [comp |-> [c1 EXCEPT !.content =
                          MapWords(c1.content, {runs[index + 1][k] : k \in 1..Len(runs[index + 1])},
                                   LAMBDA c : set_kind(c, "Selected"))],
              ok |-> TRUE,
              err |-> [kind |-> "None", index |-> 0, count |-> 0]]

\* ------------------------------------------------------- display widths
\* UnicodeWidthChar::width: "W" is a wide (CJK) character, "z" a combining mark
CharWidth(c) == IF c = "W" THEN 2 ELSE IF c = "z" THEN 0 ELSE 1

\* display_width
RECURSIVE display_width(_)
display_width(text) ==
    IF text = <<>> THEN 0 ELSE CharWidth(Head(text)) + display_width(Tail(text))

Front(s) == SubSeq(s, 1, Len(s) - 1)
Last(s) == s[Len(s)]
DropFirst(s, n) == SubSeq(s, n + 1, Len(s))

\* str::ends_with('-')
EndsHyphen(text) == text # <<>> /\ Last(text) = "-"

\* str::trim_start_matches('\n')
RECURSIVE TrimNewlines(_)
TrimNewlines(text) ==
    IF text # <<>> /\ Head(text) = "n" THEN TrimNewlines(Tail(text)) ELSE text

\* str::trim_start: leading white space (blanks and line feeds) is dropped
RECURSIVE trim_start(_)
trim_start(text) ==
    IF text # <<>> /\ Head(text) \in {" ", "n"} THEN trim_start(Tail(text)) ELSE text

\* the loop of split_by_width: i is the next character, split_idx the number
\* of characters kept so far
RECURSIVE SplitIdx(_, _, _, _, _)
SplitIdx(text, i, width, split_idx, max_width) ==
    IF i > Len(text) THEN split_idx
    ELSE IF width + CharWidth(text[i]) > max_width
         THEN (IF split_idx = 0 THEN i ELSE split_idx)
         ELSE IF width + CharWidth(text[i]) = max_width THEN i
              ELSE SplitIdx(text, i + 1, width + CharWidth(text[i]), i, max_width)

\* split_by_width
split_by_width_lossy(text, max_width) ==
    LET idx == IF max_width = 0 THEN 0 ELSE SplitIdx(text, 1, 0, 0, max_width)
    IN  [head |-> SubSeq(text, 1, idx), tail |-> DropFirst(text, idx + 1)]
split_by_width(text, max_width) ==
    LET idx == IF max_width = 0 THEN 0 ELSE SplitIdx(text, 1, 0, 0, max_width)
    IN  [head |-> SubSeq(text, 1, idx), tail |-> DropFirst(text, idx)]

\* a usize that wrapped below zero: larger than any width of the model
Huge == 1000000

\* word_wrapping, the while loop that cuts the rest of a long word into
\* lines; it does not end when a round leaves the rest as it was
RECURSIVE WrapLoop(_, _, _, _, _)
WrapLoop(newline_content, width, enable_hyphen, kind, lines) ==
    IF display_width(newline_content) <= width
    THEN [status |-> "ok", lines |-> lines, rest |-> newline_content]
    ELSE LET hy == enable_hyphen /\ ~EndsHyphen(newline_content)
             split_width == IF hy THEN width - 1 ELSE width
             sp == split_by_width(newline_content, split_width)
             hyph == hy /\ sp.head # <<>>
             content == IF hyph THEN Append(Front(sp.head), "-") ELSE sp.head
             next == IF hyph THEN <<Last(sp.head)>> \o sp.tail ELSE sp.tail
         IN  IF next = newline_content
             THEN [status |-> "diverge", lines |-> lines, rest |-> newline_content]
             ELSE CHOOSE res \in
                    {WrapLoop(nc, width, enable_hyphen, kind, ls) :
                        <<nc, ls>> \in {<<next, Append(lines, <<NewWord(content, kind)>>)>>}}
                    : TRUE

\* word_wrapping, the loop over the words from word i on.  build is "debug"
\* (an integer overflow panics) or "release" (it wraps around).
RECURSIVE WrapStep(_, _, _, _, _, _)
RECURSIVE WrapFrom(_, _, _, _, _, _, _, _)
WrapFrom(words, i, lines, line, line_len, width, enable_hyphen, build) ==
    IF i > Len(words)
    THEN [status |-> "ok", lines |-> IF line # <<>> THEN Append(lines, line) ELSE lines]
    ELSE
    LET word == words[i]
        text == word.content
        word_len == display_width(text)
    IN  IF text # <<>> /\ Head(text) = "n"
        THEN LET trimmed == TrimNewlines(text)
             IN  WrapStep(words, i + 1,
                     <<Append(lines, line),
                       IF trimmed # <<>> THEN <<[word EXCEPT !.content = trimmed]>> ELSE <<>>,
                       IF trimmed # <<>> THEN display_width(trimmed) ELSE 0>>,
                     width, enable_hyphen, build)
        ELSE IF line_len + word_len <= width
        THEN WrapStep(words, i + 1, <<lines, Append(line, word), line_len + word_len>>,
                      width, enable_hyphen, build)
        ELSE IF word_len <= width
        THEN LET w == [word EXCEPT !.content = trim_start(text)]
             IN  WrapStep(words, i + 1, <<Append(lines, line), <<w>>, display_width(w.content)>>,
                          width, enable_hyphen, build)
        ELSE IF line_len > width /\ build = "debug"
        THEN \* width - line_len overflows
             [status |-> "panic", lines |-> lines]
        ELSE
        LET wrapped == line_len > width
            flush == ~wrapped /\ width - line_len < 4
            lines1 == IF flush THEN Append(lines, line) ELSE lines
            line1 == IF flush THEN <<>> ELSE line
            avail == IF wrapped THEN Huge ELSE IF flush THEN width ELSE width - line_len
            split_width == IF enable_hyphen /\ ~EndsHyphen(text) THEN avail - 1 ELSE avail
            sp == split_by_width(text, split_width)
            hyph == enable_hyphen /\ ~EndsHyphen(sp.head) /\ sp.head # <<>>
            content == IF hyph THEN Append(Front(sp.head), "-") ELSE sp.head
            newline_content == IF hyph THEN <<Last(sp.head)>> \o sp.tail ELSE sp.tail
            lines2 == Append(lines1, Append(line1, NewWord(content, word.kind)))
        IN  CHOOSE res \in
               {IF loop.status # "ok" THEN [status |-> loop.status, lines |-> loop.lines]
                ELSE WrapStep(words, i + 1,
                        <<loop.lines,
                          IF loop.rest = <<>> THEN <<>> ELSE <<NewWord(loop.rest, word.kind)>>,
                          display_width(loop.rest)>>,
                        width, enable_hyphen, build) :
                loop \in {WrapLoop(newline_content, width, enable_hyphen, word.kind, lines2)}}
               : TRUE

\* the next round of the loop, on the values of lines, line and line_len
WrapStep(words, i, locals, width, enable_hyphen, build) ==
    CHOOSE res \in
        {WrapFrom(words, i, lines, line, line_len, width, enable_hyphen, build) :
            <<lines, line, line_len>> \in {locals}} : TRUE

\* word_wrapping
word_wrapping(words, width, allow_hyphen, build) ==
    WrapFrom(words, 1, <<>>, <<>>, 0, width, allow_hyphen /\ width > 4, build)

\* ------------------------------------------------------- transform_list
\* format!("{counter}"): the decimal digits of n
DigitChar(d) ==
    CASE d = 0 -> "0" [] d = 1 -> "1" [] d = 2 -> "2" [] d = 3 -> "3" [] d = 4 -> "4"
      [] d = 5 -> "5" [] d = 6 -> "6" [] d = 7 -> "7" [] d = 8 -> "8" [] OTHER -> "9"

RECURSIVE Digits(_)
Digits(n) == IF n < 10 THEN <<DigitChar(n)>> ELSE Append(Digits(n \div 10), DigitChar(n % 10))

\* format!("{counter}. ")
OrderedLabel(n) == Digits(n) \o <<".", " ">>

\* " ".repeat(n)
Spaces(n) == [k \in 1..n |-> " "]

\* the bullet glyph of an unordered item is written "*"
BulletLabel == <<"*", " ">>

\* strip_prefix(['1'..'9']).is_some_and(|c| c.ends_with(". "))
IsOrderedLabel(text) ==
    /\ Len(text) >= 3
    /\ text[1] \in {"1", "2", "3", "4", "5", "6", "7", "8", "9"}
    /\ text[Len(text) - 1] = "." /\ text[Len(text)] = " "

\* indent_iter: the meta words that are blank
IndentMetas(comp) == SelectSeq(comp.meta_info, LAMBDA c : trim_start(c.content) = <<>>)

\* list_type_iter: the meta words that tell ordered from unordered
ListTypeMetas(comp) == SelectSeq(comp.meta_info, LAMBDA c : c.kind \in {"MetaOList", "MetaUList"})

\* Vec::pop
Pop(stack) == IF stack = <<>> THEN <<>> ELSE Front(stack)

\* the first pass of transform_list from word i of the flattened content on;
\* st holds the local variables of the loop, zi the pairs taken from zip_iter
RECURSIVE ListPass1(_, _, _, _, _, _)
ListPass1(words, i, st, indents, types, width) ==
    IF i > Len(words) \/ st.status # "ok" THEN st
    ELSE
    LET word == words[i]
        word_len == display_width(word.content)
    IN  IF word_len + st.len < width /\ word.kind # "ListMarker"
        THEN CHOOSE res \in
                {ListPass1(words, i + 1, nst, indents, types, width) :
                    nst \in {[st EXCEPT !.len = st.len + word_len,
                                        !.line = Append(st.line, word)]}} : TRUE
        ELSE
        LET marker == word.kind = "ListMarker"
            paired == marker /\ st.zi < Min(Len(indents), Len(types))
            meta_w == IF paired THEN display_width(indents[st.zi + 1].content) ELSE 0
            ordered == paired /\ types[st.zi + 1].kind = "MetaOList"
            stack1 == IF ~paired THEN st.stack
                      ELSE IF st.tmp < meta_w THEN Append(st.stack, 0)
                      ELSE IF st.tmp > meta_w THEN Pop(st.stack)
                      ELSE st.stack
            pushed == paired /\ st.tmp < meta_w
            empty == ordered /\ stack1 = <<>>
            counter == IF ordered /\ ~empty THEN Last(stack1) + 1 ELSE 0
            stack2 == IF ordered /\ ~empty THEN Append(Front(stack1), counter) ELSE stack1
            indent == IF marker THEN meta_w ELSE st.indent
            extra == IF paired THEN (IF ordered THEN 1 ELSE 0) ELSE st.extra_indent
            filler == NewWord(IF marker THEN Spaces(indent)
                              ELSE Spaces(indent + 2 + extra), "Normal")
            text == trim_start(IF ordered /\ ~empty THEN OrderedLabel(counter) ELSE word.content)
            w == [word EXCEPT !.content = text]
        IN  IF empty THEN [st EXCEPT !.status = "panic"]
            ELSE CHOOSE res \in
                    {ListPass1(words, i + 1, nst, indents, types, width) :
                        nst \in {[st EXCEPT
                               !.lines = Append(st.lines, st.line),
                               !.line = <<filler, w>>,
                               !.len = display_width(text) + display_width(filler.content),
                               !.stack = stack2,
                               !.max_stack_len = IF pushed THEN st.max_stack_len + 1
                                                 ELSE st.max_stack_len,
                               !.indent = indent, !.extra_indent = extra,
                               !.tmp = IF paired THEN meta_w ELSE st.tmp,
                               !.zi = IF paired THEN st.zi + 1 ELSE st.zi]}} : TRUE

ListInitState ==
    [status |-> "ok", lines |-> <<>>, line |-> <<>>, len |-> 0, stack |-> <<0>>,
     max_stack_len |-> 1, indent |-> 0, extra_indent |-> 0, tmp |-> 0, zi |-> 0]

\* lines.retain(|l| l.iter().any(|c| c.content() != ""))
RetainNonEmpty(lines) ==
    SelectSeq(lines, LAMBDA l : \E k \in 1..Len(l) : l[k].content # <<>>)

\* the step both later passes make on a line that starts with an ordered
\* label: follow the indent of the line up or down one level
IndentStep(p, line) ==
    LET w == display_width(line[1].content)
    IN  IF p.indent_len < w
        THEN [p EXCEPT !.indent_index = p.indent_index + 1, !.indent_len = w]
        ELSE IF p.indent_len > w
        THEN [p EXCEPT !.indent_index = Max(p.indent_index - 1, 0), !.indent_len = w]
        ELSE p

\* the second pass: the widest ordered label of each indent level.
\* indent_correction is indexed from 0 in the source, from 1 here.
RECURSIVE ListPass2(_, _, _)
ListPass2(lines, l, p) ==
    IF l > Len(lines) \/ p.status # "ok" THEN p
    ELSE IF Len(lines[l]) < 2 THEN [p EXCEPT !.status = "panic"]
    ELSE IF ~IsOrderedLabel(lines[l][2].content) THEN ListPass2(lines, l + 1, p)
    ELSE CHOOSE res \in
            {IF q.indent_index + 1 > Len(q.indent_correction)
             THEN [q EXCEPT !.status = "panic"]
             ELSE ListPass2(lines, l + 1, q) :
             q \in {IF s.indent_index + 1 > Len(s.indent_correction) THEN s
                    ELSE [s EXCEPT !.indent_correction[s.indent_index + 1] =
                             Max(s.indent_correction[s.indent_index + 1],
                                 display_width(lines[l][2].content))] :
                    s \in {IndentStep(p, lines[l])}}} : TRUE

\* the third pass: pad the filler of the ordered items and of their
\* continuation lines; p.lines collects the lines done
RECURSIVE ListPass3(_, _, _)
ListPass3(lines, l, p) ==
    IF l > Len(lines) \/ p.status # "ok" THEN p
    ELSE IF Len(lines[l]) < 2 THEN [p EXCEPT !.status = "panic"]
    ELSE
    LET line == lines[l]
        label == IsOrderedLabel(line[2].content)
        skip == IF label THEN FALSE ELSE p.unordered_list_skip
    IN  IF line[2].content = BulletLabel \/ skip
        THEN CHOOSE res \in
                {ListPass3(lines, l + 1, np) :
                    np \in {[p EXCEPT !.unordered_list_skip = TRUE,
                                      !.lines = Append(p.lines, line)]}} : TRUE
        ELSE
        LET q == IF label THEN IndentStep(p, line) ELSE p
            oob == q.indent_index + 1 > Len(q.indent_correction)
            corr == IF oob THEN 0 ELSE q.indent_correction[q.indent_index + 1]
            amount == IF label
                      THEN Max(corr - display_width(line[2].content), 0)
                               + display_width(line[1].content)
                      ELSE Max(corr + display_width(line[1].content) - 3, 0)
        IN  IF oob THEN [q EXCEPT !.status = "panic"]
            ELSE CHOOSE res \in
                    {ListPass3(lines, l + 1, np) :
                        np \in {[q EXCEPT !.unordered_list_skip = FALSE,
                                          !.lines = Append(q.lines,
                                              [line EXCEPT ![1].content = Spaces(amount)])]}}
                    : TRUE

\* transform_list after the first pass: the second and the third pass over
\* the lines that are not empty
ListPasses23(st) ==
    IF st.status # "ok" THEN [status |-> st.status]
    ELSE CHOOSE res \in
            {IF p2.status # "ok" THEN [status |-> p2.status]
             ELSE ListPass3(lines, 1,
                    [status |-> "ok", indent_correction |-> p2.indent_correction,
                     indent_index |-> 0, indent_len |-> 0,
                     unordered_list_skip |-> TRUE, lines |-> <<>>]) :
             <<lines, p2>> \in
                {<<ls, ListPass2(ls, 1,
                        [status |-> "ok",
                         indent_correction |-> [k \in 1..st.max_stack_len |-> 0],
                         indent_index |-> 0, indent_len |-> 0])>> :
                    ls \in {RetainNonEmpty(Append(st.lines, st.line))}}} : TRUE

\* transform_list
transform_list(comp, width) ==
    CHOOSE res \in
        {IF p3.status # "ok" THEN [status |-> p3.status, comp |-> comp]
         ELSE [status |-> "ok",
               comp |-> [comp EXCEPT !.height = Len(p3.lines) % U16, !.content = p3.lines]] :
         p3 \in {ListPasses23(st) :
                    st \in {ListPass1(Flatten(comp.content), 1, ListInitState,
                                      IndentMetas(comp), ListTypeMetas(comp), width)}}} : TRUE

\* ------------------------------------------------------ transform_table
\* content_entry_len
content_entry_len(words) == SumSeq([k \in 1..Len(words) |-> display_width(words[k].content)])

\* (f32::from(old) / f32::from(over) * f32::from(bal)).floor(): the exact
\* floor of old * bal / over, one less for the operands whose product the two
\* f32 roundings bring just below a whole number.  The list is complete for
\* over <= 32 and bal <= 32.
F32RoundsDown == { <<13, 22, 22>>, <<7, 23, 23>>, <<14, 23, 23>>, <<15, 29, 29>> }

RatioFloor(old, over, bal) ==
    ((old * bal) \div over) - (IF <<old, over, bal>> \in F32RoundsDown THEN 1 ELSE 0)

\* the columns of cols (indices into widths) by ascending width, ties in
\* column order (sorted_by is stable)
RECURSIVE SortedByWidth(_, _)
SortedByWidth(cols, widths) ==
    IF cols = {} THEN <<>>
    ELSE LET c == CHOOSE x \in cols :
                    \A y \in cols : widths[x] < widths[y] \/ (widths[x] = widths[y] /\ x <= y)
         IN  <<c>> \o SortedByWidth(cols \ {c}, widths)

\* the loop that gives the overflowing columns their new width.  b holds
\* widths_balanced, the two pools and whether a subtraction went below zero;
\* each round works on the value of the round before
RECURSIVE Balance(_, _, _, _, _)
Balance(sorted, i, b, widths, min_width) ==
    IF i > Len(sorted) THEN b
    ELSE LET c == sorted[i]
             w == RatioFloor(widths[c], b.available_overflowing_width,
                             b.available_balanced_width)
             clamped == [b EXCEPT !.widths_balanced[c] = min_width,
                                  !.available_overflowing_width = @ - widths[c],
                                  !.available_balanced_width = (@ - min_width) % U16,
                                  !.underflow = @ \/ b.available_balanced_width < min_width]
         IN  CHOOSE res \in
                {Balance(sorted, i + 1, nb, widths, min_width) :
                    nb \in {IF w < min_width THEN clamped
                            ELSE [b EXCEPT !.widths_balanced[c] = w]}} : TRUE

\* the cells of the table wrapped to the width of their column, from cell k on
RECURSIVE WrapCells(_, _, _, _, _)
WrapCells(content, k, column_widths, build, acc) ==
    IF k > Len(content) \/ acc.status # "ok" THEN acc
    ELSE LET col == ((k - 1) % Len(column_widths)) + 1
             row == ((k - 1) \div Len(column_widths)) + 1
         IN  CHOOSE res \in
                {WrapCells(content, k + 1, column_widths, build,
                    IF r.status # "ok" THEN [acc EXCEPT !.status = r.status]
                    ELSE [acc EXCEPT !.content = Append(acc.content, Flatten(r.lines)),
                                     !.heights[row] = Max(acc.heights[row],
                                                          Len(r.lines) % U16)]) :
                 r \in {word_wrapping(content[k], column_widths[col], TRUE, build)}} : TRUE

\* the natural width of each of the cc columns: the widest cell of the column
NaturalWidths_sum(content, cc) ==
    [c \in 1..cc |->
        SumSeq([r \in 1..(Len(content) \div cc) |->
                   content_entry_len(content[(r - 1) * cc + c])])]
NaturalWidths(content, cc) ==
    [c \in 1..cc |->
        LET lens == {content_entry_len(content[(r - 1) * cc + c]) :
                        r \in 1..(Len(content) \div cc)}
        IN  IF lens = {} THEN 0 ELSE CHOOSE m \in lens : \A x \in lens : x <= m]

\* the end of transform_table: the cells are wrapped to the balanced widths b
WrapTable(comp, build, b) ==
    IF b.underflow /\ build = "debug"
    THEN [status |-> "panic", branch |-> "overflow", underflow |-> TRUE, comp |-> comp]
    ELSE CHOOSE res \in
            {IF wrapped.status # "ok"
             THEN [status |-> wrapped.status, branch |-> "overflow",
                   underflow |-> b.underflow, comp |-> comp]
             ELSE [status |-> "ok", branch |-> "overflow", underflow |-> b.underflow,
                   comp |-> [comp EXCEPT !.content = wrapped.content,
                                         !.height = SumSeq(wrapped.heights) % U16,
                                         !.widths = b.widths_balanced,
                                         !.heights = wrapped.heights]] :
             wrapped \in {WrapCells(comp.content, 1, b.widths_balanced, build,
                             [status |-> "ok", content |-> <<>>,
                              heights |-> [r \in 1..(Len(comp.content)
                                                       \div Len(b.widths_balanced)) |-> 1]])}}
            : TRUE

\* transform_table from the natural widths on
BalanceTable(comp, width, build, widths) ==
    LET cc == Len(widths)
        row_count == Len(comp.content) \div cc
        styling_width == cc
        unbalanced_cells_width == SumSeq(widths)
        under1 == width < styling_width
        overflow_threshold == ((width - styling_width) % U16) \div cc
        overflowing == {c \in 1..cc : widths[c] > overflow_threshold}
        overflowing_width == SumSeq([c \in 1..cc |-> IF c \in overflowing THEN widths[c] ELSE 0])
        non_overflowing_width ==
            SumSeq([c \in 1..cc |-> IF c \in overflowing THEN 0 ELSE widths[c]])
        under2 == width < non_overflowing_width
                    \/ (width - non_overflowing_width) % U16 < styling_width
        available == (((width - non_overflowing_width) % U16) - styling_width) % U16
        min_width == Max(available \div (2 * Cardinality(overflowing)), 1)
    IN  IF width >= unbalanced_cells_width + styling_width
        THEN [status |-> "ok", branch |-> "fits", underflow |-> FALSE,
              comp |-> [comp EXCEPT !.height = row_count % U16, !.widths = widths,
                                    !.heights = [r \in 1..(row_count % U16) |-> 1]]]
        ELSE IF under1 /\ build = "debug"
        THEN [status |-> "panic", branch |-> "overflow", underflow |-> TRUE, comp |-> comp]
        ELSE IF overflowing = {}
        THEN \* the assertion on the overflowing columns fails
             [status |-> "panic", branch |-> "overflow", underflow |-> under1, comp |-> comp]
        ELSE CHOOSE res \in
                {WrapTable(comp, build, b) :
                    b \in {Balance(SortedByWidth(overflowing, widths), 1,
                                   [widths_balanced |-> widths,
                                    available_balanced_width |-> available,
                                    available_overflowing_width |-> overflowing_width,
                                    underflow |-> under1 \/ under2],
                                   widths, min_width)}} : TRUE

\* transform_table; branch tells which way it went
transform_table(comp, width, build) ==
    LET column_count == Len(SelectSeq(comp.meta_info, LAMBDA w : w.kind = "MetaColumnsCount"))
        malformed == IF column_count = 0 THEN TRUE ELSE Len(comp.content) % column_count # 0
    IN  IF malformed
        THEN [status |-> "ok", branch |-> "malformed", underflow |-> FALSE,
              comp |-> [comp EXCEPT !.height = 1, !.widths = <<>>, !.heights = <<>>]]
        ELSE CHOOSE res \in
                {BalanceTable(comp, width, build, widths) :
                    widths \in {NaturalWidths(comp.content, column_count)}} : TRUE

\* --------------------------------------------------- transform_paragraph
\* transform_paragraph, the loop that puts a blank before each line of a
\* quote, but for the first line of a quote that carries a marker
QuoteLines(comp, lines) ==
    IF comp.kind = "Quote"
    THEN [l \in 1..Len(lines) |->
            IF l = 1 /\ comp.meta_info # <<>> THEN lines[l]
            ELSE <<NewWord(<<" ">>, "Normal")>> \o lines[l]]
    ELSE lines

\* transform_paragraph: the wrap width is width - 1, - 4 or - 2 in usize, so
\* a smaller width panics (debug) or wraps to a huge width (release)
transform_paragraph_keepheight(comp, width, build) ==
    LET sub == CASE comp.kind = "Paragraph" -> 1 [] comp.kind = "Task" -> 4 [] OTHER -> 2
        under == width < sub
    IN  IF under /\ build = "debug" THEN [status |-> "panic", comp |-> comp]
        ELSE CHOOSE res \in
                {IF r.status # "ok" THEN [status |-> r.status, comp |-> comp]
                 ELSE [status |-> "ok",
                       comp |-> [comp EXCEPT !.content = QuoteLines(comp, r.lines)]] :
                 r \in {word_wrapping(Flatten(comp.content),
                                      IF under THEN Huge ELSE width - sub, TRUE, build)}} : TRUE
transform_paragraph(comp, width, build) ==
    LET sub == CASE comp.kind = "Paragraph" -> 1 [] comp.kind = "Task" -> 4 [] OTHER -> 2
        under == width < sub
    IN  IF under /\ build = "debug" THEN [status |-> "panic", comp |-> comp]
        ELSE CHOOSE res \in
                {IF r.status # "ok" THEN [status |-> r.status, comp |-> comp]
                 ELSE [status |-> "ok",
                       comp |-> [comp EXCEPT !.height = Len(r.lines) % U16,
                                             !.content = QuoteLines(comp, r.lines)]] :
                 r \in {word_wrapping(Flatten(comp.content),
                                      IF under THEN Huge ELSE width - sub, TRUE, build)}} : TRUE

\* --------------------------------------------------- transform_codeblock
\* content_as_lines().join("") of a block that is not a table
content_joined(comp) == Flatten([l \in 1..Len(comp.content) |-> LineText(comp.content[l])])

\* COLOR_MAP (src/highlight is not part of the sources): the fixed palette,
\* one colour for each highlight id, counted from 0
COLOR_MAP == <<"Palette0", "Palette1", "Palette2">>

\* WordType::CodeBlock(color): Color::Reset or a colour of the palette
CodeBlockKind(color) ==
    [Reset |-> "CodeBlock", Palette0 |-> "CodeBlockPalette0",
     Palette1 |-> "CodeBlockPalette1", Palette2 |-> "CodeBlockPalette2"][color]

\* highlight_code (src/highlight is not part of the sources): the text comes
\* back unhighlighted, or as events: source ranges [start, end) that cover the
\* text in order, HighlightStart(index) and HighlightEnd around them
HighlightInfos(n) ==
    {[kind |-> "Unhighlighted", events |-> <<>>],
     [kind |-> "Highlighted",
      events |-> <<[type |-> "Source", index |-> 0, start |-> 0, end |-> n]>>]}
    \cup {[kind |-> "Highlighted",
           events |-> <<[type |-> "HighlightStart", index |-> 0, start |-> 0, end |-> 0],
                        [type |-> "Source", index |-> 0, start |-> 0, end |-> k],
                        [type |-> "HighlightEnd", index |-> 0, start |-> 0, end |-> 0],
                        [type |-> "Source", index |-> 0, start |-> k, end |-> n]>>] :
              k \in 1..(n - 1)}

\* the loop over the events: one word for each source range, in the colour
\* that is current
RECURSIVE EventWords(_, _, _, _)
EventWords(e, i, color, content) ==
    IF i > Len(e) THEN [words |-> <<>>, color |-> color]
    ELSE IF e[i].type = "Source"
    THEN LET rest == EventWords(e, i + 1, color, content)
         IN  [rest EXCEPT !.words =
                 <<NewWord(SubSeq(content, e[i].start + 1, e[i].end), CodeBlockKind(color))>>
                 \o @]
    ELSE EventWords(e, i + 1,
                    IF e[i].type = "HighlightStart" THEN COLOR_MAP[e[i].index + 1] ELSE "Reset",
                    content)

\* the loop over the characters of a word that holds a line feed; acc holds
\* final_content and inner_content
RECURSIVE SplitWord(_, _, _, _, _)
SplitWord(text, kind, i, start, acc) ==
    IF i > Len(text) THEN acc
    ELSE IF text[i] = "n"
    THEN CHOOSE res \in
            {SplitWord(text, kind, i + 1, i + 1, nacc) :
                nacc \in {[final |-> Append(acc.final,
                                     Append(acc.inner,
                                            NewWord(SubSeq(text, start, i - 1), kind))),
                           inner |-> <<>>]}} : TRUE
    ELSE IF i = Len(text)
    THEN [acc EXCEPT !.inner = Append(@, NewWord(SubSeq(text, start, Len(text)), kind))]
    ELSE SplitWord(text, kind, i + 1, start, acc)

\* the loop over new_content that cuts the words into lines
RECURSIVE SplitLines(_, _, _)
SplitLines(new_content, k, acc) ==
    IF k > Len(new_content) THEN acc
    ELSE LET word == new_content[k]
         IN  CHOOSE res \in
                {SplitLines(new_content, k + 1, nacc) :
                    nacc \in {IF \E i \in 1..Len(word.content) : word.content[i] = "n"
                              THEN SplitWord(word.content, word.kind, 1, 1, acc)
                              ELSE [acc EXCEPT !.inner = Append(@, word)]}} : TRUE

\* transform_codeblock, the branch of a highlighted answer: the lines cut
\* from the words of the events, and a last line of one empty word
HighlightedContent(events, content) ==
    CHOOSE res \in
        {Append(SplitLines(ev.words, 1, [final |-> <<>>, inner |-> <<>>]).final,
                <<NewWord(<<>>, CodeBlockKind(ev.color))>>) :
         ev \in {EventWords(events, 1, "Reset", content)}} : TRUE

\* transform_codeblock, for the answer highlight of highlight_code
transform_codeblock(comp, highlight) ==
    LET language == IF comp.meta_info = <<>> THEN <<>> ELSE comp.meta_info[1].content
        inserted == IF language = <<>>
                    THEN <<<<NewWord(<<>>, CodeBlockKind("Reset"))>>>> \o comp.content
                    ELSE comp.content
    IN  CHOOSE res \in
            {[status |-> "ok",
              comp |-> [comp EXCEPT !.content = new_content,
                                    !.height = Len(new_content) % U16]] :
             new_content \in {IF highlight.kind = "Highlighted"
                              THEN HighlightedContent(highlight.events, content_joined(comp))
                              ELSE inserted}} : TRUE

\* -------------------------------------------------- TextComponent::transform
transform(comp, width, build, highlight) ==
    CASE comp.kind = "List" ->
            transform_list(comp, width)
      [] comp.kind = "CodeBlock" ->
            transform_codeblock(comp, highlight)
      [] comp.kind \in {"Paragraph", "Task", "Quote"} ->
            transform_paragraph(comp, width, build)
      [] comp.kind \in {"LineBreak", "Heading"} ->
            [status |-> "ok", comp |-> [comp EXCEPT !.height = 1]]
      [] comp.kind = "Table" ->
            LET r == transform_table(comp, width, build)
            IN  [status |-> r.status, comp |-> r.comp]
      [] comp.kind = "HorizontalSeparator" ->
            [status |-> "ok", comp |-> [comp EXCEPT !.height = 1]]
      [] comp.kind = "Footnote" ->
            [status |-> "ok", comp |-> [comp EXCEPT !.height = 0]]
      [] OTHER ->
            [status |-> "panic", comp |-> comp]

\* --------------------------------------------------------- ComponentRoot
\* ComponentRoot::num_links
RootNumLinks(comps) ==
    SumSeq([k \in 1..Len(comps) |-> IF IsText(comps[k]) THEN num_links(comps[k]) ELSE 0])

\* ComponentRoot::deselect, the loop over the text components
DeselectAll_first(comps) ==
    [k \in 1..Len(comps) |-> IF IsText(comps[k]) /\ k = 1 THEN deselect(comps[k]) ELSE comps[k]]
DeselectAll(comps) ==
    [k \in 1..Len(comps) |-> IF IsText(comps[k]) THEN deselect(comps[k]) ELSE comps[k]]

\* the loop of ComponentRoot::select from component k on, count links passed
RECURSIVE SelectLoop_nocount(_, _, _, _)
SelectLoop_nocount(comps, k, count, index) ==
    IF k > Len(comps)
    THEN [comps |-> comps, ok |-> FALSE, val |-> 0,
          err |-> [kind |-> "OutOfBounds", index |-> index, count |-> count]]
    ELSE IF ~IsText(comps[k]) THEN SelectLoop_nocount(comps, k + 1, count, index)
    ELSE IF index - count < num_links(comps[k])
         THEN LET r == visually_select(comps[k], index - count)
              IN  [comps |-> [comps EXCEPT ![k] = r.comp], ok |-> r.ok,
                   val |-> IF r.ok THEN r.comp.offset ELSE 0, err |-> r.err]
    ELSE SelectLoop_nocount(comps, k + 1, count, index)

RECURSIVE SelectLoop(_, _, _, _)
SelectLoop(comps, k, count, index) ==
    IF k > Len(comps)
    THEN [comps |-> comps, ok |-> FALSE, val |-> 0,
          err |-> [kind |-> "OutOfBounds", index |-> index, count |-> count]]
    ELSE IF ~IsText(comps[k]) THEN SelectLoop(comps, k + 1, count, index)
    ELSE IF index < count
         THEN \* index - count underflows (usize)
              [comps |-> comps, ok |-> FALSE, val |-> 0,
               err |-> [kind |-> "Overflow", index |-> index, count |-> count]]
    ELSE IF index - count < num_links(comps[k])
         THEN LET r == visually_select(comps[k], index - count)
              IN  [comps |-> [comps EXCEPT ![k] = r.comp], ok |-> r.ok,
                   val |-> IF r.ok THEN r.comp.offset ELSE 0, err |-> r.err]
    ELSE SelectLoop(comps, k + 1, count + num_links(comps[k]), index)

\* ComponentRoot::set_scroll, the forward pass from component k on
RECURSIVE ScrollFrom_textonly(_, _, _, _)
ScrollFrom_textonly(comps, k, y_offset, scroll) ==
    IF k > Len(comps) THEN comps
    ELSE ScrollFrom_textonly(
            [comps EXCEPT ![k].offset = y_offset, ![k].scroll_offset = scroll],
            k + 1,
            IF IsText(comps[k]) THEN (y_offset + comps[k].height) % U16 ELSE y_offset,
            scroll)

RECURSIVE ScrollFrom(_, _, _, _)
ScrollFrom(comps, k, y_offset, scroll) ==
    IF k > Len(comps) THEN comps
    ELSE ScrollFrom([comps EXCEPT ![k].offset = y_offset, ![k].scroll_offset = scroll],
                    k + 1, (y_offset + comps[k].height) % U16, scroll)

\* TextComponent::is_indented_list: the first meta word that is blank is the
\* indent; the list is indented when that word is not empty
is_indented_list_anykind(comp) ==
    LET blank == SelectSeq(comp.meta_info, LAMBDA w : trim_start(w.content) = <<>>)
    IN  blank # <<>> /\ blank[1].content # <<>>
is_indented_list(comp) ==
    /\ comp.kind = "List"
    /\ LET blank == SelectSeq(comp.meta_info, LAMBDA w : trim_start(w.content) = <<>>)
       IN  blank # <<>> /\ blank[1].content # <<>>

\* ComponentRoot::add_missing_components, the test that puts a LineBreak
\* between a block and the block after it
NeedsLineBreak_always(component, next) ==
    component.kind # "LineBreak" /\ next.kind # "LineBreak"
NeedsLineBreak(component, next) ==
    /\ component.kind # "LineBreak"
    /\ next.kind # "LineBreak"
    /\ ~(component.kind = "Task" /\ IsText(next) /\ is_indented_list(next))

\* ComponentRoot::add_missing_components, the loop from block k on
RECURSIVE AddMissingFrom(_, _)
AddMissingFrom(comps, k) ==
    IF k > Len(comps) THEN <<>>
    ELSE <<comps[k]>>
         \o (IF k < Len(comps) /\ NeedsLineBreak(comps[k], comps[k + 1])
             THEN <<new("LineBreak", <<>>)>> ELSE <<>>)
         \o AddMissingFrom(comps, k + 1)

\* ComponentRoot::add_missing_components
add_missing_components(comps) == AddMissingFrom(comps, 1)

\* String::from("Footnote not found")
FootnoteNotFound ==
    <<"F", "o", "o", "t", "n", "o", "t", "e", " ", "n", "o", "t", " ", "f", "o", "u", "n", "d">>

\* ComponentRoot::find_footnote, the filter on the blocks: a Footnote whose
\* first meta word is search
IsFootnoteOf_anyid(f, search) ==
    IsText(f) /\ f.kind = "Footnote" /\ f.meta_info # <<>>
IsFootnoteOf(f, search) ==
    /\ IsText(f)
    /\ f.kind = "Footnote"
    /\ f.meta_info # <<>>
    /\ f.meta_info[1].content = search

\* ComponentRoot::find_footnote
find_footnote(comps, search) ==
    LET notes == SelectSeq(comps, LAMBDA f : IsFootnoteOf(f, search))
        words == SelectSeq(Flatten([k \in 1..Len(notes) |-> Flatten(notes[k].content)]),
                           LAMBDA w : w.kind = "Footnote")
        footnote == Flatten(Contents(words))
    IN  IF footnote = <<>> THEN FootnoteNotFound ELSE footnote

\* a character that takes one byte in UTF-8; "W", "z" and "*" stand for
\* characters of several bytes
IsOneByte(c) == c \notin {"W", "z", "*"}

\* &heading[1..] is a slice at byte 1: it needs a first character of one byte
CanSliceAt1(heading) == heading # <<>> /\ IsOneByte(heading[1])

\* compare_heading (src/search.rs is not part of the sources): the needle is
\* the slug of the heading, its words joined by "-"
RECURSIVE JoinWords(_)
JoinWords(texts) ==
    IF texts = <<>> THEN <<>>
    ELSE IF Len(texts) = 1 THEN texts[1]
    ELSE texts[1] \o <<"-">> \o JoinWords(Tail(texts))

compare_heading(link, content) == link = JoinWords(Contents(Flatten(content)))

\* ComponentRoot::heading_offset, the loop from block k on
RECURSIVE HeadingFrom_fromfirst(_, _, _, _)
HeadingFrom_fromfirst(comps, k, y_offset, heading) ==
    IF k > Len(comps)
    THEN [status |-> "ok", ok |-> FALSE, val |-> 0, err |-> heading]
    ELSE IF IsText(comps[k]) /\ comps[k].kind = "Heading" /\ ~CanSliceAt1(heading)
    THEN [status |-> "panic", ok |-> FALSE, val |-> 0, err |-> <<>>]
    ELSE IF /\ IsText(comps[k]) /\ comps[k].kind = "Heading"
            /\ compare_heading(Tail(heading), comps[k].content)
    THEN [status |-> "ok", ok |-> TRUE, val |-> 0, err |-> <<>>]
    ELSE HeadingFrom_fromfirst(comps, k + 1, (y_offset + comps[k].height) % U16, heading)
RECURSIVE HeadingFrom(_, _, _, _)
HeadingFrom(comps, k, y_offset, heading) ==
    IF k > Len(comps)
    THEN [status |-> "ok", ok |-> FALSE, val |-> 0, err |-> heading]
    ELSE IF IsText(comps[k]) /\ comps[k].kind = "Heading" /\ ~CanSliceAt1(heading)
    THEN [status |-> "panic", ok |-> FALSE, val |-> 0, err |-> <<>>]
    ELSE IF /\ IsText(comps[k]) /\ comps[k].kind = "Heading"
            /\ compare_heading(Tail(heading), comps[k].content)
    THEN [status |-> "ok", ok |-> TRUE, val |-> y_offset, err |-> <<>>]
    ELSE HeadingFrom(comps, k + 1, (y_offset + comps[k].height) % U16, heading)

\* ComponentRoot::heading_offset
heading_offset(comps, heading) == HeadingFrom(comps, 1, 0, heading)

\* TextComponent::highlight_link: the focused_index-th meta word that is a
\* link target or a footnote reference (0-based)
highlight_link_first(comp) ==
    LET links == SelectSeq(comp.meta_info, IsLinkMeta)
    IN  IF links = <<>>
        THEN [ok |-> FALSE, val |-> <<>>]
        ELSE [ok |-> TRUE, val |-> links[1].content]
highlight_link(comp) ==
    LET links == SelectSeq(comp.meta_info, IsLinkMeta)
    IN  IF comp.focused_index + 1 > Len(links)
        THEN [ok |-> FALSE, val |-> <<>>]
        ELSE [ok |-> TRUE, val |-> links[comp.focused_index + 1].content]

\* ComponentRoot::selected: both unwraps abort when there is nothing to return
selected(comps) ==
    LET focused == SelectSeq(comps, LAMBDA c : IsText(c) /\ c.focused)
    IN  IF focused = <<>> THEN [status |-> "panic", val |-> <<>>]
        ELSE IF ~highlight_link(focused[1]).ok THEN [status |-> "panic", val |-> <<>>]
        ELSE [status |-> "ok", val |-> highlight_link(focused[1]).val]

\* ------------------------------------------------------------ SearchBox
\* char::len_utf8: the wide character and the bullet take three bytes, the
\* combining mark two, the others one
Utf8Len(c) == CASE c \in {"W", "*"} -> 3 [] c = "z" -> 2 [] OTHER -> 1

\* the byte at which the i-th character of text starts (0-based byte)
ByteStart(text, i) == SumSeq([j \in 1..(i - 1) |-> Utf8Len(text[j])])

\* String::remove(idx): idx is a byte index; it removes the character that
\* starts there and panics when no character starts there
StringRemove(text, idx) ==
    LET at == {i \in 1..Len(text) : ByteStart(text, i) = idx}
    IN  IF at = {} THEN [status |-> "panic", text |-> text]
        ELSE [status |-> "ok",
              text |-> LET i == CHOOSE i \in at : TRUE
                       IN  SubSeq(text, 1, i - 1) \o SubSeq(text, i + 1, Len(text))]

\* SearchBox::new
SearchBoxNew == [text |-> <<>>, cursor |-> 0]

\* SearchBox::insert
insert(box, c) == [text |-> Append(box.text, c), cursor |-> box.cursor + 1]

\* SearchBox::delete
delete(box) ==
    IF box.cursor > 0
    THEN LET r == StringRemove(box.text, box.cursor - 1)
         IN  IF r.status = "panic" THEN [status |-> "panic", box |-> box]
             ELSE [status |-> "ok", box |-> [text |-> r.text, cursor |-> box.cursor - 1]]
    ELSE [status |-> "ok", box |-> box]

\* SearchBox::clear
clear(box) == [text |-> <<>>, cursor |-> 0]

\* SearchBox::consume
consume(box) == [val |-> box.text, box |-> clear(box)]

\* ------------------------------------------------------------- content_x
\* u16::saturating_sub
saturating_sub(a, b) == IF a > b THEN a - b ELSE 0

\* content_x: config_width + 2 is a plain u16 addition, which a debug build
\* checks and a release build wraps
content_x(terminal_width, config_width, centering, build) ==
    CASE centering = "Left" -> [status |-> "ok", val |-> 2]
      [] centering = "Center" ->
            LET x == saturating_sub(terminal_width \div 2, config_width \div 2)
            IN  [status |-> "ok", val |-> IF x > 2 THEN x ELSE 2]
      [] centering = "Right" ->
            IF config_width + 2 >= U16 /\ build = "debug"
            THEN [status |-> "panic", val |-> 0]
            ELSE LET x == saturating_sub(terminal_width, (config_width + 2) % U16)
                 IN  [status |-> "ok", val |-> IF x > 2 THEN x ELSE 2]

\* ComponentRoot::link_index_and_height, the match on the kind of a word
IsIndexedWord(c) == c.kind \in {"Link", "Selected", "FootnoteInline"}

\* ComponentRoot::link_index_and_height, one text block: the row of each
\* indexed word, line by line
LinkRows_blockrow(comp) ==
    Flatten([index \in 1..Len(comp.content) |->
                [k \in 1..Len(SelectSeq(comp.content[index], IsIndexedWord)) |-> comp.offset]])
LinkRows(comp) ==
    Flatten([index \in 1..Len(comp.content) |->
                [k \in 1..Len(SelectSeq(comp.content[index], IsIndexedWord)) |->
                    (comp.offset + (index - 1)) % U16]])

\* ComponentRoot::link_index_and_height: count runs over the text blocks
link_index_and_height(comps) ==
    LET texts == SelectSeq(comps, IsText)
        rows  == Flatten([k \in 1..Len(texts) |-> LinkRows(texts[k])])
    IN  [count \in 1..Len(rows) |-> <<count - 1, rows[count]>>]

\* ------------------------------------------------- documents of the model
\* what the parser hands over for one inline item: plain text, a link (the
\* link text followed by its target), a footnote reference
ItemWords(it) ==
    CASE it = "text" -> <<NewWord(<<"a">>, "Normal")>>
      [] it = "link" -> <<NewWord(<<"b">>, "Link"), NewWord(<<"u">>, "LinkData")>>
      [] it = "fref" -> <<NewWord(<<"1">>, "FootnoteInline")>>

Items == {"text", "link", "fref"}

\* the inline contents of the paragraphs of the model: no link, one link,
\* two links side by side, two links with text between, a link next to a
\* footnote reference
ItemLists ==
    { <<>>, <<"text", "link">>, <<"link", "link">>,
      <<"link", "text", "link">>, <<"fref", "link">> }

\* the paragraphs that arrive already split into lines, one item a line
FormattedItemLists == { <<"text", "link">>, <<"fref">>, <<"link", "link">> }

ExpandItems(its) == Flatten([k \in 1..Len(its) |-> ItemWords(its[k])])

BlockMenu ==
    {new("Paragraph", ExpandItems(its)) : its \in ItemLists}
    \cup {new_formatted("Paragraph", [k \in 1..Len(its) |-> ItemWords(its[k])]) :
             its \in FormattedItemLists}
    \cup {NewImage(h) : h \in 1..MaxImageHeight}

Documents == SeqsUpTo(BlockMenu, MaxBlocks)

NoRet == [op |-> "none", index |-> 0, ok |-> TRUE, val |-> 0,
          err |-> [kind |-> "None", index |-> 0, count |-> 0]]

\* ComponentRoot::new
Init ==
    /\ components \in Documents
    /\ is_focused = FALSE
    /\ ret = NoRet
    /\ arg = <<>>

\* ComponentRoot::select
Select(index) ==
    LET r == SelectLoop(DeselectAll(components), 1, 0, index)
    IN  /\ components' = r.comps
        /\ is_focused' = TRUE
        /\ ret' = [op |-> "select", index |-> index, ok |-> r.ok, val |-> r.val, err |-> r.err]
        /\ arg' = arg

\* ComponentRoot::deselect
Deselect ==
    /\ components' = DeselectAll(components)
    /\ is_focused' = FALSE
    /\ ret' = [NoRet EXCEPT !.op = IF ret.op = "select" /\ ret.ok
                                   THEN "deselect_after_select" ELSE "deselect"]
    /\ UNCHANGED arg

\* ComponentRoot::set_scroll
SetScroll(scroll) ==
    /\ components' = ScrollFrom(components, 1, 0, scroll)
    /\ ret' = [NoRet EXCEPT !.op = "set_scroll", !.val = scroll]
    /\ UNCHANGED <<is_focused, arg>>

Next ==
    \/ \E index \in 0..MaxIndex : Select(index)
    \/ Deselect
    \/ \E scroll \in 0..MaxScroll : SetScroll(scroll)

Spec == Init /\ [][Next]_vars

\* ======================================================== claims C1 .. C5
\* number of link entries of the blocks before block k
LinksBefore(comps, k) ==
    SumSeq([j \in 1..(k - 1) |-> IF IsText(comps[j]) THEN num_links(comps[j]) ELSE 0])

\* sum of the heights of the blocks before block k
HeightBefore(comps, k) == SumSeq([j \in 1..(k - 1) |-> comps[j].height])

\* the kinds of the content words, block by block, line by line
Kinds(comps) ==
    [k \in 1..Len(comps) |->
        [l \in 1..Len(comps[k].content) |->
            [m \in 1..Len(comps[k].content[l]) |-> comps[k].content[l][m].kind]]]

\* the kind a word shows once a pending selection is undone (Word::previous_type)
RestingKinds(comps) ==
    [k \in 1..Len(comps) |->
        [l \in 1..Len(comps[k].content) |->
            [m \in 1..Len(comps[k].content[l]) |->
                LET w == comps[k].content[l][m]
                IN  IF w.prev = "None" THEN w.kind ELSE w.prev]]]

NoneSelected(comps) ==
    \A k \in 1..Len(comps) : \A w \in {Flatten(comps[k].content)[m] :
            m \in 1..Len(Flatten(comps[k].content))} : w.kind # "Selected"

SomeSelected(comps) == ~NoneSelected(comps)

HasImage(comps) == \E k \in 1..Len(comps) : ~IsText(comps[k])

\* C1: select(i) with i >= num_links() returns the out-of-bounds error that
\* reports i and the total link count, whatever the blocks of the document.
C1_SelectOutOfBounds ==
    (ret.op = "select" /\ ret.index >= RootNumLinks(components))
        => /\ ~ret.ok
           /\ ret.err = [kind |-> "OutOfBounds", index |-> ret.index,
                         count |-> RootNumLinks(components)]

C1_Witness ==
    /\ ret.op = "select" /\ ~ret.ok
    /\ ret.index >= RootNumLinks(components)
    /\ RootNumLinks(components) >= 2
    /\ HasImage(components)

\* C2: select(i) with i < num_links() returns Ok(y), y the y_offset of the
\* block whose range of link indices contains i; it never fails.
C2_SelectValidSucceeds ==
    (ret.op = "select" /\ ret.index < RootNumLinks(components))
        => /\ ret.ok
           /\ \E k \in 1..Len(components) :
                /\ IsText(components[k])
                /\ LinksBefore(components, k) <= ret.index
                /\ ret.index < LinksBefore(components, k) + num_links(components[k])
                /\ ret.val = components[k].offset

\* C3 as stated: from every state, select(i); deselect() gives every word the
\* kind it had just before select(i), and no word is Selected afterwards.
AfterSelectDeselect(i) ==
    DeselectAll(SelectLoop(DeselectAll(components), 1, 0, i).comps)

C3_SelectDeselectRestores ==
    \A i \in 0..MaxIndex :
        i < RootNumLinks(components)
            => /\ Kinds(AfterSelectDeselect(i)) = Kinds(components)
               /\ NoneSelected(AfterSelectDeselect(i))

\* C3 amended: select(i); deselect() gives every word the kind it had just
\* before select(i) when that kind was not Selected and its saved kind when
\* it was Selected; no word is Selected afterwards.
C3_SelectDeselectRestoresResting ==
    \A i \in 0..MaxIndex :
        i < RootNumLinks(components)
            => /\ Kinds(AfterSelectDeselect(i)) = RestingKinds(components)
               /\ NoneSelected(AfterSelectDeselect(i))

C3_Witness ==
    /\ ret.op = "deselect_after_select"
    /\ RootNumLinks(components) >= 2
    /\ NoneSelected(components)
    /\ \E k \in 1..Len(components) : num_links_words(components[k]) >= 1

\* C4: at most one block is focused, after any select (failed or not) and
\* deselect calls.
C4_AtMostOneFocused ==
    Cardinality({k \in 1..Len(components) : components[k].focused}) <= 1

C4_Witness ==
    /\ ret.op = "select"
    /\ Cardinality({k \in 1..Len(components) : components[k].focused}) = 1
    /\ Cardinality({k \in 1..Len(components) : num_links(components[k]) >= 1}) >= 2
    /\ components[Len(components)].focused

\* C5: after set_scroll(s) the y_offset of each block is the sum of the
\* heights of the blocks before it and every scroll_offset is s.
C5_SetScroll ==
    ret.op = "set_scroll"
        => \A k \in 1..Len(components) :
              /\ components[k].offset = HeightBefore(components, k)
              /\ components[k].scroll_offset = ret.val

C5_Witness ==
    /\ ret.op = "set_scroll" /\ ret.val > 0
    /\ Len(components) >= 2
    /\ ~IsText(components[1])
    /\ components[Len(components)].offset > 0


\* ================================================= word_wrapping on its own
\* the builds: overflow checks on (debug) or off (release)
Builds == {"debug", "release"}

Str(s) == [i \in 1..Len(s) |-> s[i]]

\* word contents: a short word, a blank, a word with a leading blank, a word
\* longer than the widths, wide characters, hyphens, a hard line break
WrapTexts ==
    { <<"a", "b">>, <<" ">>, <<" ", "c", "d">>, <<"a", "b", "c", "d", "e", "f", "g">>,
      <<"W", "a", "W", "z">>, <<"a", "b", "-", "c", "d", "-">>, <<"n", "a", "b">> }

WrapWidths == {1, 2, 3, 5, 6}

WrapInputs ==
    [words : {[k \in 1..Len(ts) |-> NewWord(ts[k], "Normal")] :
                 ts \in SeqsUpTo(WrapTexts, MaxWrapWords)},
     width : WrapWidths,
     hyphen : BOOLEAN]

InitWrap ==
    /\ components = <<>>
    /\ is_focused = FALSE
    /\ ret = NoRet
    /\ arg \in WrapInputs

\* one call of word_wrapping
WordWrapping(build) ==
    /\ ret.op = "none"
    /\ \E r \in {word_wrapping(arg.words, arg.width, arg.hyphen, build)} :
           ret' = [op |-> "word_wrapping", build |-> build,
                   status |-> r.status, lines |-> r.lines]
    /\ UNCHANGED <<components, is_focused, arg>>

NextWrap == \E build \in Builds : WordWrapping(build)

SpecWrap == InitWrap /\ [][NextWrap]_vars

\* ------------------------------------------------------------- claim C8
IsPrefix(p, t) == Len(p) <= Len(t) /\ SubSeq(t, 1, Len(p)) = p

\* the lines from line l on spell target once the hyphen that ends a line is
\* taken off where one was put in
RECURSIVE StripMatches(_, _, _)
StripMatches(lines, l, target) ==
    IF l > Len(lines) THEN target = <<>>
    ELSE LET t == LineText(lines[l])
         IN  \/ /\ IsPrefix(t, target)
                /\ StripMatches(lines, l + 1, DropFirst(target, Len(t)))
             \/ /\ EndsHyphen(t)
                /\ IsPrefix(Front(t), target)
                /\ StripMatches(lines, l + 1, DropFirst(target, Len(t) - 1))

\* C8 as stated: the lines returned by word_wrapping, inserted hyphens taken
\* off, spell exactly the concatenation of the input words.
C8_WrapRoundTrip ==
    (ret.op = "word_wrapping" /\ ret.status = "ok")
        => StripMatches(ret.lines, 1, Flatten(Contents(arg.words)))

\* what a word can lose: nothing, its leading line feeds, its leading white space
Trimmed(text, how) ==
    IF how = 0 THEN text ELSE IF how = 1 THEN TrimNewlines(text) ELSE trim_start(text)

\* C8 amended: the lines returned by word_wrapping, inserted hyphens taken
\* off, spell the concatenation of the input words, each word taken whole or
\* without its leading line feeds or without its leading white space.
C8_WrapRoundTripTrimmed ==
    (ret.op = "word_wrapping" /\ ret.status = "ok")
        => \E how \in [1..Len(arg.words) -> 0..2] :
              StripMatches(ret.lines, 1,
                  Flatten([k \in 1..Len(arg.words) |-> Trimmed(arg.words[k].content, how[k])]))

C8_Witness ==
    /\ ret.op = "word_wrapping" /\ ret.status = "ok"
    /\ arg.hyphen /\ arg.width > 4
    /\ Len(ret.lines) >= 3
    /\ Len(Flatten(ret.lines)) > Len(arg.words)
    /\ ~StripMatches(ret.lines, 1, Flatten(Contents(arg.words)))


\* ================================================ the two constructors
NewKinds == {"Normal", "Link", "LinkData", "FootnoteInline", "FootnoteData", "MetaOther"}

\* the k-th input word carries k as its content, so that words are told apart
PosText(k) == <<CASE k = 1 -> "1" [] k = 2 -> "2" [] k = 3 -> "3" [] k = 4 -> "4" [] OTHER -> "5">>

NewInputs ==
    {[words |-> [k \in 1..Len(ks) |-> NewWord(PosText(k), ks[k])], cut |-> c] :
        ks \in SeqsUpTo(NewKinds, MaxNewWords), c \in 0..MaxNewWords}

InitNew ==
    /\ components = <<>>
    /\ is_focused = FALSE
    /\ ret = NoRet
    /\ arg \in {a \in NewInputs : a.cut <= Len(a.words)}

\* TextComponent::new on the flat word list
New ==
    /\ ret.op = "none"
    /\ components' = <<new("Paragraph", arg.words)>>
    /\ ret' = [NoRet EXCEPT !.op = "new"]
    /\ UNCHANGED <<is_focused, arg>>

\* TextComponent::new_formatted on the word list cut into two lines
NewFormatted ==
    /\ ret.op = "none"
    /\ components' = <<new_formatted("Paragraph",
                          <<SubSeq(arg.words, 1, arg.cut),
                            SubSeq(arg.words, arg.cut + 1, Len(arg.words))>>)>>
    /\ ret' = [NoRet EXCEPT !.op = "new_formatted"]
    /\ UNCHANGED <<is_focused, arg>>

NextNew == New \/ NewFormatted

SpecNew == InitNew /\ [][NextNew]_vars

\* ------------------------------------------------------------- claim C7
SeqRange(sq) == {sq[k] : k \in 1..Len(sq)}

NotRenderableKinds == MetaKinds \cup {"LinkData", "FootnoteData"}

\* C7: after either constructor a word that is not renderable is in meta and
\* not in content, a renderable word is in content, a footnote reference is
\* in content and in meta, and meta is in the order of the input.
C7_Partition ==
    ret.op \in {"new", "new_formatted"}
        => LET inContent == SeqRange(Flatten(components[1].content))
               inMeta == SeqRange(components[1].meta_info)
           IN  /\ \A k \in 1..Len(arg.words) :
                    LET w == arg.words[k]
                    IN  /\ w.kind \in NotRenderableKinds => (w \in inMeta /\ w \notin inContent)
                        /\ w.kind \notin NotRenderableKinds => w \in inContent
                        /\ w.kind = "FootnoteInline" => (w \in inContent /\ w \in inMeta)
               /\ components[1].meta_info = SelectSeq(arg.words, LAMBDA w : w \in inMeta)


\* ================================================= transform of a List block
ListIndents == {0, 2, 4}

ListWidths == {7, 40}

ListItems == [indent : ListIndents, ordered : BOOLEAN]

\* the words the parser hands over for one list item: the indent, the marker,
\* the text of the item, the type of the list
ItemRow(it) ==
    << NewWord(Spaces(it.indent), "MetaOther"),
       NewWord(IF it.ordered THEN <<"X", ".", " ">> ELSE BulletLabel, "ListMarker"),
       NewWord(<<"i", "t", "e", "m">>, "Normal"),
       NewWord(<<"X">>, IF it.ordered THEN "MetaOList" ELSE "MetaUList") >>

MakeList(items) == new_formatted("List", [k \in 1..Len(items) |-> ItemRow(items[k])])

InitList ==
    /\ arg \in (SeqsUpTo(ListItems, MaxListItems) \ {<<>>})
    /\ components = <<MakeList(arg)>>
    /\ is_focused = FALSE
    /\ ret = NoRet

\* TextComponent::transform on the List block
TransformList(width) ==
    /\ ret.op = "none"
    /\ \E r \in {transform_list(components[1], width)} :
           /\ components' = <<r.comp>>
           /\ ret' = [op |-> "transform", status |-> r.status, width |-> width]
    /\ UNCHANGED <<is_focused, arg>>

NextList == \E width \in ListWidths : TransformList(width)

SpecList == InitList /\ [][NextList]_vars

\* ------------------------------------------------------------ claim C10
\* the rendered list markers, one for each item, in order
Markers(comp) ==
    Contents(SelectSeq(Flatten(comp.content), LAMBDA w : w.kind = "ListMarker"))

\* item j is the ordered sibling before item k: same indent, and only deeper
\* items between the two
IsPrevSibling(items, j, k) ==
    /\ j < k
    /\ items[j].ordered /\ items[j].indent = items[k].indent
    /\ \A m \in (j + 1)..(k - 1) : items[m].indent > items[k].indent

\* C10: after the transform of a List block the ordinals of ordered siblings
\* of one nesting level go up by exactly 1, with deeper items between them or
\* not, and the first ordered item after the indent grows is "1. ".
C10_OrderedNumbering ==
    (ret.op = "transform" /\ ret.status = "ok")
        => LET m == Markers(components[1])
           IN  /\ Len(m) = Len(arg)
               /\ \A k \in 1..Len(arg) :
                    arg[k].ordered =>
                      /\ \A j \in 1..(k - 1) :
                            IsPrevSibling(arg, j, k) =>
                               \E n \in 1..Len(arg) :
                                  m[j] = OrderedLabel(n) /\ m[k] = OrderedLabel(n + 1)
                      /\ (k > 1 /\ arg[k].indent > arg[k - 1].indent)
                            => m[k] = OrderedLabel(1)


\* ================================================ transform of a Table block
\* the cells of the model: a short word, three words, a long word
CellTexts ==
    { << <<"a", "b">> >>,
      << <<"a", "b", "c">>, <<" ">>, <<"d", "e">> >>,
      << <<"a", "b", "c", "d", "e", "f", "g", "h">> >> }

TableWidths == {1, 2, 3, 4, 6, 10, 20}

\* the table as the parser hands it over: one line for each cell and one
\* ColumnsCount marker for each column of the separator row
MakeTable(cells, marks) ==
    new_formatted("Table",
        [k \in 1..Len(cells) |-> [j \in 1..Len(cells[k]) |-> NewWord(cells[k][j], "Normal")]]
        \o [k \in 1..marks |-> <<NewWord(<<>>, "MetaColumnsCount")>>])

InitTable ==
    /\ arg \in [cells : SeqsUpTo(CellTexts, MaxCells) \ {<<>>}, marks : 0..MaxCols]
    /\ components = <<MakeTable(arg.cells, arg.marks)>>
    /\ is_focused = FALSE
    /\ ret = NoRet

\* TextComponent::transform on the Table block
TransformTable(width, build) ==
    /\ ret.op = "none"
    /\ \E r \in {transform_table(components[1], width, build)} :
           /\ components' = <<r.comp>>
           /\ ret' = [op |-> "transform", status |-> r.status, width |-> width,
                      build |-> build, branch |-> r.branch, underflow |-> r.underflow]
    /\ UNCHANGED <<is_focused, arg>>

NextTable == \E width \in TableWidths, build \in Builds : TransformTable(width, build)

SpecTable == InitTable /\ [][NextTable]_vars

\* ------------------------------------------------------------- claim C9
\* C9: when a well-formed table does not fit and is balanced, the transform
\* ends with sum(column_widths) + column_count <= target width and no
\* subtraction of the budget goes below zero.
C9_BalancedFits ==
    (ret.op = "transform" /\ ret.branch = "overflow")
        => /\ ret.status = "ok"
           /\ ~ret.underflow
           /\ SumSeq(components[1].widths) + Len(components[1].widths) <= ret.width

\* ===================================================== transform of a block
MaxTransforms == 2

MaxParaWords == 2

\* the words of a paragraph: a short word, a word with a leading blank, a
\* long word
ParaTexts == { <<"a", "b">>, <<" ", "c", "d">>, <<"a", "b", "c", "d", "e", "f", "g">> }

ParaWords ==
    {[k \in 1..Len(ts) |-> NewWord(ts[k], "Normal")] : ts \in SeqsUpTo(ParaTexts, MaxParaWords)}

\* the lines of a code block, each ended by a line feed
CodeLines ==
    { << <<NewWord(<<"a", "n">>, "CodeBlock")>> >>,
      << <<NewWord(<<"a", " ", "b", "n">>, "CodeBlock")>>, <<NewWord(<<"c", "n">>, "CodeBlock")>> >>,
      << <<NewWord(<<"r", "s">>, "MetaPLanguage"), NewWord(<<"a", "n">>, "CodeBlock")>>,
         <<NewWord(<<"b", "n">>, "CodeBlock")>> >> }

TransformWidths == {0, 1, 3, 6, 20}

\* the blocks handed to transform, as the constructors build them
TransformBlocks ==
    {new(kind, ws) : kind \in {"Paragraph", "Task", "Quote"}, ws \in ParaWords}
    \cup {new("Quote", <<NewWord(<<"N">>, "MetaOther")>> \o ws) : ws \in ParaWords}
    \cup {new("Heading", <<NewWord(<<"a", "b">>, "Normal")>>),
          new("LineBreak", <<>>),
          new("HorizontalSeparator", <<>>),
          new("Footnote", <<NewWord(<<"1">>, "FootnoteData"),
                            NewWord(<<"a", "b">>, "Footnote")>>)}
    \cup {new_formatted("CodeBlock", lines) : lines \in CodeLines}
    \cup {MakeList(items) : items \in SeqsUpTo(ListItems, 2) \ {<<>>}}
    \cup {MakeTable(cells, marks) : cells \in SeqsUpTo(CellTexts, 2) \ {<<>>}, marks \in 0..2}

InitTransform ==
    /\ arg \in TransformBlocks
    /\ components = <<arg>>
    /\ is_focused = FALSE
    /\ ret = NoRet

\* the number of transforms that have run
Runs == IF ret.op = "transform" THEN ret.runs ELSE 0

\* TextComponent::transform on the block, as on load and on every resize
Transform(width, build, highlight) ==
    /\ Runs < MaxTransforms
    /\ ret.op = "transform" => ret.status = "ok"
    /\ \E r \in {transform(components[1], width, build, highlight)} :
           /\ components' = <<r.comp>>
           /\ ret' = [op |-> "transform", status |-> r.status, width |-> width,
                      build |-> build, runs |-> Runs + 1]
    /\ UNCHANGED <<is_focused, arg>>

\* highlight_code is called for a code block only
HighlightsFor(comp) ==
    IF comp.kind = "CodeBlock" THEN HighlightInfos(Len(content_joined(comp)))
    ELSE {[kind |-> "Unhighlighted", events |-> <<>>]}

NextTransform ==
    \E width \in TransformWidths, build \in Builds :
        \E highlight \in HighlightsFor(components[1]) :
            Transform(width, build, highlight)

SpecTransform == InitTransform /\ [][NextTransform]_vars

\* ------------------------------------------------------------- claim C6
\* the table has no column marker or its cells do not fill whole rows
IsMalformedTable(comp) ==
    LET column_count ==
            Len(SelectSeq(comp.meta_info, LAMBDA w : w.kind = "MetaColumnsCount"))
    IN  IF column_count = 0 THEN TRUE ELSE Len(comp.content) % column_count # 0

\* C6 as stated: after transform(width) the height of a block is the number
\* of lines of its content for every kind but Table, and for a Table it is
\* the sum of the row heights of its kind tag.
C6_HeightIsLineCount ==
    (ret.op = "transform" /\ ret.status = "ok")
        => LET c == components[1]
           IN  IF c.kind = "Table" THEN c.height = SumSeq(c.heights)
               ELSE c.height = Len(c.content)

\* C6 amended: after transform(width) has returned, the height of a
\* Paragraph, Task, Quote, List or CodeBlock is the number of lines of its
\* content; the height of a LineBreak, Heading or HorizontalSeparator is 1;
\* the height of a Footnote is 0; the height of a well-formed Table is the sum
\* of the row heights of its kind tag, and a malformed Table has height 1 and
\* empty tags.
C6_HeightAfterTransform ==
    (ret.op = "transform" /\ ret.status = "ok")
        => LET c == components[1]
           IN  /\ c.kind \in {"Paragraph", "Task", "Quote", "List", "CodeBlock"}
                    => c.height = Len(c.content)
               /\ c.kind \in {"LineBreak", "Heading", "HorizontalSeparator"} => c.height = 1
               /\ c.kind = "Footnote" => c.height = 0
               /\ (c.kind = "Table" /\ ~IsMalformedTable(c)) => c.height = SumSeq(c.heights)
               /\ (c.kind = "Table" /\ IsMalformedTable(c))
                    => (c.height = 1 /\ c.widths = <<>> /\ c.heights = <<>>)

\* a paragraph of one line that the transform has wrapped into three or more
C6_Witness ==
    /\ ret.op = "transform" /\ ret.status = "ok"
    /\ components[1].kind = "Paragraph"
    /\ Len(arg.content) = 1
    /\ components[1].height >= 3

\* ============================================== the blocks of a document
MaxDocBlocks == 3

DocWidth == 20

\* a block as it stands once the document is loaded: built and transformed
Loaded(block) ==
    IF IsText(block)
    THEN transform(block, DocWidth, "release", [kind |-> "Unhighlighted", events |-> <<>>]).comp
    ELSE block

\* the blocks of the documents: a paragraph, a line break, a task, a task
\* that carries a blank marker, a list that starts indented, a list whose
\* second item is indented, a list that is not indented, a media block
DocBlocks ==
    {Loaded(b) : b \in
        {new("Paragraph", <<NewWord(<<"a">>, "Normal")>>),
         new("LineBreak", <<>>),
         new("Task", <<NewWord(<<"a">>, "Normal")>>),
         new("Task", <<NewWord(<<" ", " ">>, "MetaOther"), NewWord(<<"a">>, "Normal")>>),
         MakeList(<<[indent |-> 2, ordered |-> FALSE]>>),
         MakeList(<<[indent |-> 0, ordered |-> TRUE], [indent |-> 2, ordered |-> FALSE]>>),
         MakeList(<<[indent |-> 0, ordered |-> FALSE]>>),
         NewImage(2)}}

InitDoc ==
    /\ components \in SeqsUpTo(DocBlocks, MaxDocBlocks)
    /\ is_focused = FALSE
    /\ ret = [op |-> "none"]
    /\ arg = <<>>

\* ComponentRoot::add_missing_components; arg keeps the blocks it was given
AddMissingComponents ==
    /\ components' = add_missing_components(components)
    /\ arg' = components
    /\ ret' = [op |-> "add_missing_components"]
    /\ UNCHANGED is_focused

\* TextComponent::is_indented_list on block k
IsIndentedList(k) ==
    /\ k <= Len(components)
    /\ IsText(components[k])
    /\ ret' = [op |-> "is_indented_list", k |-> k, val |-> is_indented_list(components[k])]
    /\ UNCHANGED <<components, is_focused, arg>>

NextDoc ==
    \/ AddMissingComponents
    \/ \E k \in 1..MaxDocBlocks : IsIndentedList(k)

SpecDoc == InitDoc /\ [][NextDoc]_vars

\* ------------------------------------------------------------ claim C11
\* the pair of adjacent blocks that the pass leaves as it is
IsTaskWithSublist(a, b) == a.kind = "Task" /\ IsText(b) /\ is_indented_list(b)

\* the place in the output of block k of the input, when one block goes in
\* after every pair of blocks that are not line breaks and not a task with
\* its sublist
RECURSIVE PlaceOf(_, _)
PlaceOf(input, k) ==
    IF k = 1 THEN 1
    ELSE PlaceOf(input, k - 1)
         + (IF /\ input[k - 1].kind # "LineBreak" /\ input[k].kind # "LineBreak"
               /\ ~IsTaskWithSublist(input[k - 1], input[k])
            THEN 2 ELSE 1)

\* C11: in the document add_missing_components returns, two adjacent blocks
\* that are not line breaks are a Task and the indented List after it; every
\* other adjacent pair of the input that has no line break has exactly one
\* empty LineBreak put between its blocks; the blocks of the input are kept
\* in their order, and nothing goes before the first or after the last.
C11_AddMissingComponents ==
    ret.op = "add_missing_components"
        => /\ \A j \in 1..(Len(components) - 1) :
                (components[j].kind # "LineBreak" /\ components[j + 1].kind # "LineBreak")
                    => IsTaskWithSublist(components[j], components[j + 1])
           /\ (arg = <<>>) => (components = <<>>)
           /\ (arg # <<>>) => (Len(components) = PlaceOf(arg, Len(arg)))
           /\ \A k \in 1..Len(arg) : components[PlaceOf(arg, k)] = arg[k]
           /\ \A k \in 2..Len(arg) :
                PlaceOf(arg, k) = PlaceOf(arg, k - 1) + 2
                    => components[PlaceOf(arg, k) - 1] = new("LineBreak", <<>>)

\* a task kept next to its sublist in a document that got a line break
\* elsewhere
C11_Witness ==
    /\ ret.op = "add_missing_components"
    /\ Len(components) > Len(arg)
    /\ \E k \in 1..(Len(arg) - 1) : IsTaskWithSublist(arg[k], arg[k + 1])

\* ------------------------------------------------------------ claim C17
\* the word is made of white space only, and of some
IsIndentMarker(w) == trim_start(w.content) = <<>> /\ w.content # <<>>

\* C17 as stated: is_indented_list is true if and only if the block is a
\* List and some word of its meta, wherever it stands, is blank and not empty.
C17_IndentedListAnywhere ==
    ret.op = "is_indented_list"
        => LET c == components[ret.k]
           IN  ret.val = (/\ c.kind = "List"
                          /\ \E j \in 1..Len(c.meta_info) : IsIndentMarker(c.meta_info[j]))

\* C17 amended: is_indented_list is true if and only if the block is a List
\* and the first word of its meta whose trimmed content is empty is not
\* itself empty.
C17_IndentedListFirstBlank ==
    ret.op = "is_indented_list"
        => LET c == components[ret.k]
           IN  ret.val = (/\ c.kind = "List"
                          /\ \E j \in 1..Len(c.meta_info) :
                                /\ IsIndentMarker(c.meta_info[j])
                                /\ \A i \in 1..(j - 1) : c.meta_info[i].content # <<>>
                                /\ \A i \in 1..(j - 1) :
                                      trim_start(c.meta_info[i].content) # <<>>)

\* the list whose first item is indented is told indented
C17_Witness ==
    /\ ret.op = "is_indented_list"
    /\ ret.val
    /\ components[ret.k].kind = "List"

\* ======================================= footnotes and headings of a document
MaxLookupBlocks == 3

\* the blocks of the documents: a paragraph, two headings, two footnotes of
\* id 1 (one of them with a word that is not a body word), a footnote of id 2
\* without a body, a media block
LookupBlocks ==
    {Loaded(b) : b \in
        {new("Paragraph", <<NewWord(<<"a">>, "Normal")>>),
         new("Heading", <<NewWord(<<"a", "b">>, "Normal")>>),
         new("Heading", <<NewWord(<<"c">>, "Normal"), NewWord(<<"d">>, "Normal")>>),
         new("Footnote", <<NewWord(<<"1">>, "FootnoteData"),
                           NewWord(<<"a">>, "Footnote"), NewWord(<<"b">>, "Footnote")>>),
         new("Footnote", <<NewWord(<<"1">>, "FootnoteData"),
                           NewWord(<<"x">>, "Normal"), NewWord(<<"c">>, "Footnote")>>),
         new("Footnote", <<NewWord(<<"2">>, "FootnoteData")>>),
         NewImage(2)}}

\* the ids asked for: two that documents carry, one that none carries
FootnoteIds == {<<"1">>, <<"2">>, <<"3">>}

\* the needles: the slugs of the two headings behind "#", a slug no heading
\* has, the empty needle, a needle without "#", a needle that starts with a
\* wide character, a needle that starts with a combining mark
Needles ==
    {<<"#", "a", "b">>, <<"#", "c", "-", "d">>, <<"#", "a">>, <<>>,
     <<"x", "a", "b">>, <<"W", "a", "b">>, <<"z">>}

InitLookup ==
    /\ components \in SeqsUpTo(LookupBlocks, MaxLookupBlocks)
    /\ is_focused = FALSE
    /\ ret = [op |-> "none"]
    /\ arg = <<>>

\* ComponentRoot::find_footnote
FindFootnote(search) ==
    /\ ret' = [op |-> "find_footnote", search |-> search,
               val |-> find_footnote(components, search)]
    /\ UNCHANGED <<components, is_focused, arg>>

\* ComponentRoot::heading_offset
HeadingOffset(heading) ==
    /\ \E r \in {heading_offset(components, heading)} :
          ret' = [op |-> "heading_offset", heading |-> heading, status |-> r.status,
                  ok |-> r.ok, val |-> r.val, err |-> r.err]
    /\ UNCHANGED <<components, is_focused, arg>>

NextLookup ==
    \/ \E search \in FootnoteIds : FindFootnote(search)
    \/ \E heading \in Needles : HeadingOffset(heading)
    \/ \E scroll \in 0..MaxScroll : SetScroll(scroll)

SpecLookup == InitLookup /\ [][NextLookup]_vars

\* ------------------------------------------------------------ claim C12
\* the Footnote blocks that carry id as their first meta entry
CarriesId(comps, k, id) ==
    /\ comps[k].kind = "Footnote"
    /\ comps[k].meta_info # <<>>
    /\ comps[k].meta_info[1].content = id

\* the body words of the blocks of that id, in document order, as one text
RECURSIVE BodyText(_, _, _)
BodyText(comps, k, id) ==
    IF k > Len(comps) THEN <<>>
    ELSE (IF CarriesId(comps, k, id)
          THEN Flatten(Contents(SelectSeq(Flatten(comps[k].content),
                                          LAMBDA w : w.kind = "Footnote")))
          ELSE <<>>) \o BodyText(comps, k + 1, id)

\* C12 as stated: find_footnote(id) returns the concatenation of the body
\* words of the Footnote blocks of that id whenever such a block exists, and
\* "Footnote not found" only when no block carries the id.
C12_FootnoteOrSentinel ==
    ret.op = "find_footnote" =>
        ret.val = IF \E k \in 1..Len(components) : CarriesId(components, k, ret.search)
                  THEN BodyText(components, 1, ret.search)
                  ELSE FootnoteNotFound

\* C12: find_footnote(id) returns the concatenation, in document order, of
\* the body words of the Footnote blocks of that id when that text is not
\* empty, and "Footnote not found" when it is empty, which covers the
\* documents in which no Footnote block carries the id.
C12_FootnoteOrSentinelWhenEmpty ==
    ret.op = "find_footnote" =>
        /\ ret.val = IF BodyText(components, 1, ret.search) = <<>>
                     THEN FootnoteNotFound
                     ELSE BodyText(components, 1, ret.search)
        /\ (~\E k \in 1..Len(components) : CarriesId(components, k, ret.search))
              => ret.val = FootnoteNotFound

\* two blocks of the id asked for, a block of another id between or around
C12_Witness ==
    /\ ret.op = "find_footnote"
    /\ \E j, k \in 1..Len(components) :
          /\ j < k
          /\ CarriesId(components, j, ret.search)
          /\ CarriesId(components, k, ret.search)
          /\ components[j] # components[k]
    /\ ret.val = <<"c", "a", "b">>

\* ------------------------------------------------------------ claim C13
\* block k is a Heading whose slug is the needle without its first character
MatchesNeedle(comps, k, needle) ==
    /\ comps[k].kind = "Heading"
    /\ needle # <<>>
    /\ compare_heading(Tail(needle), comps[k].content)

FirstMatch(comps, k, needle) ==
    /\ MatchesNeedle(comps, k, needle)
    /\ \A j \in 1..(k - 1) : ~MatchesNeedle(comps, j, needle)

\* the offsets are the ones set_scroll leaves
Scrolled(comps) ==
    comps # <<>> /\ comps = ScrollFrom(comps, 1, 0, comps[1].scroll_offset)

\* C13: when heading_offset(needle) returns Ok(h), h is the sum of the
\* heights of the blocks, text and media, before the first Heading that
\* matches the needle, and a needle whose first character is one byte and
\* that matches a Heading gets Ok; once set_scroll has run, h is the
\* y_offset of that Heading.
C13_HeadingOffset ==
    ret.op = "heading_offset" =>
        /\ (ret.status = "ok" /\ ret.ok) =>
              \E k \in 1..Len(components) :
                 /\ FirstMatch(components, k, ret.heading)
                 /\ ret.val = HeightBefore(components, k)
                 /\ Scrolled(components) => components[k].offset = ret.val
        /\ (/\ CanSliceAt1(ret.heading)
            /\ \E k \in 1..Len(components) : MatchesNeedle(components, k, ret.heading))
              => ret.status = "ok" /\ ret.ok

\* a heading found behind a media block and another block, after set_scroll
C13_Witness ==
    /\ ret.op = "heading_offset"
    /\ ret.status = "ok"
    /\ ret.ok
    /\ ret.val = 3
    /\ Scrolled(components)
    /\ \E k \in 2..Len(components) :
          FirstMatch(components, k, ret.heading) /\ components[k].offset = 3

\* ------------------------------------------------------------ claim C14
\* C14 as stated: for every needle that matches no Heading block, the empty
\* needle and a needle without "#" included, heading_offset returns the
\* error that names the needle, and the call never aborts.
C14_HeadingNotFoundIsError ==
    ret.op = "heading_offset" =>
        /\ ret.status = "ok"
        /\ (~\E k \in 1..Len(components) : MatchesNeedle(components, k, ret.heading))
              => (~ret.ok /\ ret.err = ret.heading)

\* ====================================================== the kind of a word
MaxWordCalls == 5

\* the kinds the words take: three kinds of text and the selection highlight
WordKinds == {"Normal", "Bold", "Link", "Selected"}

\* Word::new; ret lists the calls made on the word, each with the word it met
InitWord ==
    /\ components = <<>>
    /\ is_focused = FALSE
    /\ ret = <<>>
    /\ arg \in {NewWord(<<"x">>, k) : k \in WordKinds}

\* Word::set_kind
SetKind(kind) ==
    /\ Len(ret) < MaxWordCalls
    /\ arg' = set_kind(arg, kind)
    /\ ret' = Append(ret, [op |-> "set_kind", kind |-> kind, before |-> arg])
    /\ UNCHANGED <<components, is_focused>>

\* Word::clear_kind
ClearKind ==
    /\ Len(ret) < MaxWordCalls
    /\ arg' = clear_kind(arg)
    /\ ret' = Append(ret, [op |-> "clear_kind", kind |-> "None", before |-> arg])
    /\ UNCHANGED <<components, is_focused>>

NextWord ==
    \/ \E kind \in WordKinds : SetKind(kind)
    \/ ClearKind

SpecWord == InitWord /\ [][NextWord]_vars

\* the word as call i left it
WordAfter(i) == IF i < Len(ret) THEN ret[i + 1].before ELSE arg

\* ------------------------------------------------------------ claim C15
\* C15: on a word with no saved kind, set_kind(k) makes the kind k and saves
\* the prior kind; a clear_kind right after it restores the prior kind and
\* drops the saved value; clear_kind on a word with no saved kind changes
\* nothing, so a second clear_kind changes nothing.
C15_SetThenClear ==
    \A i \in 1..Len(ret) :
        /\ (ret[i].op = "set_kind" /\ ret[i].before.prev = "None") =>
              /\ WordAfter(i).kind = ret[i].kind
              /\ WordAfter(i).prev = ret[i].before.kind
              /\ WordAfter(i).content = ret[i].before.content
              /\ (i < Len(ret) /\ ret[i + 1].op = "clear_kind") =>
                    WordAfter(i + 1) = ret[i].before
        /\ (ret[i].op = "clear_kind" /\ ret[i].before.prev = "None") =>
              WordAfter(i) = ret[i].before
        /\ (ret[i].op = "clear_kind" /\ i < Len(ret) /\ ret[i + 1].op = "clear_kind") =>
              WordAfter(i + 1) = WordAfter(i)

\* a fresh word re-tagged to another kind, cleared, and cleared once more
C15_Witness ==
    /\ Len(ret) = 3
    /\ ret[1].op = "set_kind"
    /\ ret[1].before.prev = "None"
    /\ ret[1].kind # ret[1].before.kind
    /\ ret[2].op = "clear_kind"
    /\ ret[3].op = "clear_kind"
    /\ arg = ret[1].before

\* ------------------------------------------------------------ claim C16
\* every call from the j-th on is a clear_kind
OnlyClearsFrom(j) == \A n \in j..Len(ret) : ret[n].op = "clear_kind"

\* C16: after set_kind(a); set_kind(b); clear_kind() on a word of original
\* kind k the kind is a and no kind is saved, and any number of clear_kind
\* calls after that leaves the kind a: k does not come back.
C16_DoubleSetLosesOriginal ==
    \A i \in 1..Len(ret) :
        (/\ i + 2 <= Len(ret)
         /\ ret[i].op = "set_kind"
         /\ ret[i].before.prev = "None"
         /\ ret[i + 1].op = "set_kind"
         /\ ret[i + 2].op = "clear_kind"
         /\ OnlyClearsFrom(i + 3))
        => /\ arg.kind = ret[i].kind
           /\ arg.prev = "None"
           /\ WordAfter(i + 2).kind = ret[i].kind
           /\ WordAfter(i + 2).prev = "None"
           /\ (ret[i].kind # ret[i].before.kind) => arg.kind # ret[i].before.kind

\* a word of kind k re-tagged to a, then to b, cleared and cleared twice more,
\* the three kinds different
C16_Witness ==
    /\ Len(ret) = 5
    /\ ret[1].op = "set_kind"
    /\ ret[2].op = "set_kind"
    /\ OnlyClearsFrom(3)
    /\ ret[1].kind # ret[1].before.kind
    /\ ret[2].kind # ret[1].kind
    /\ ret[2].kind # ret[1].before.kind
    /\ arg.kind = ret[1].kind

\* ==================================================== the link under focus
MaxLinkBlocks == 2

\* the blocks of the documents: text without a link, a link to "u", links to
\* "v" and "w" with text between, a footnote reference "1" next to a link to
\* "x", a media block
LinkBlocks ==
    {new("Paragraph", <<NewWord(<<"a">>, "Normal")>>),
     new("Paragraph", <<NewWord(<<"b">>, "Link"), NewWord(<<"u">>, "LinkData")>>),
     new("Paragraph", <<NewWord(<<"b">>, "Link"), NewWord(<<"v">>, "LinkData"),
                        NewWord(<<"a">>, "Normal"),
                        NewWord(<<"c">>, "Link"), NewWord(<<"w">>, "LinkData")>>),
     new("Paragraph", <<NewWord(<<"1">>, "FootnoteInline"),
                        NewWord(<<"b">>, "Link"), NewWord(<<"x">>, "LinkData")>>),
     NewImage(1)}

InitLinks ==
    /\ components \in SeqsUpTo(LinkBlocks, MaxLinkBlocks)
    /\ is_focused = FALSE
    /\ ret = NoRet
    /\ arg = <<>>

\* the select call that came right before, if it was one
After == IF ret.op = "select" THEN [select |-> TRUE, ok |-> ret.ok, index |-> ret.index]
         ELSE [select |-> FALSE, ok |-> FALSE, index |-> 0]

\* TextComponent::highlight_link on block k
HighlightLink(k) ==
    /\ k <= Len(components)
    /\ IsText(components[k])
    /\ \E r \in {highlight_link(components[k])} :
          ret' = [op |-> "highlight_link", k |-> k, ok |-> r.ok, val |-> r.val,
                  after |-> After]
    /\ UNCHANGED <<components, is_focused, arg>>

\* ComponentRoot::selected
Selected ==
    /\ \E r \in {selected(components)} :
          ret' = [op |-> "selected", status |-> r.status, val |-> r.val, after |-> After]
    /\ UNCHANGED <<components, is_focused, arg>>

NextLinks ==
    \/ \E index \in 0..MaxIndex : Select(index)
    \/ Deselect
    \/ \E k \in 1..MaxLinkBlocks : HighlightLink(k)
    \/ Selected

SpecLinks == InitLinks /\ [][NextLinks]_vars

\* ------------------------------------------------------------ claim C18
\* the link targets and footnote references of the meta of the blocks, in
\* block order
RECURSIVE TargetsFrom(_, _)
TargetsFrom(comps, k) ==
    IF k > Len(comps) THEN <<>>
    ELSE (IF IsText(comps[k])
          THEN Contents(SelectSeq(comps[k].meta_info,
                                  LAMBDA w : w.kind \in {"LinkData", "FootnoteInline"}))
          ELSE <<>>) \o TargetsFrom(comps, k + 1)

\* C18: right after a successful select(i), highlight_link() of the focused
\* block and selected() return the content of the i-th (0-based) link target
\* or footnote reference of the document, counted over the meta of the blocks
\* in block order; highlight_link() of a block fails when its focused index
\* is not below the number of such entries in its meta.
C18_SelectedIsIthTarget ==
    /\ (ret.op = "selected" /\ ret.after.ok) =>
          /\ ret.status = "ok"
          /\ ret.val = TargetsFrom(components, 1)[ret.after.index + 1]
    /\ ret.op = "highlight_link" =>
          /\ (ret.after.ok /\ components[ret.k].focused) =>
                /\ ret.ok
                /\ ret.val = TargetsFrom(components, 1)[ret.after.index + 1]
          /\ ret.ok <=> components[ret.k].focused_index
                          < Len(TargetsFrom(<<components[ret.k]>>, 1))

\* the second link of the second block selected, a block with links before it
C18_Witness ==
    /\ ret.op = "selected"
    /\ ret.after.ok
    /\ ret.after.index >= 2
    /\ Len(components) = 2
    /\ components[2].focused
    /\ components[2].focused_index = 1
    /\ ret.val = TargetsFrom(components, 1)[ret.after.index + 1]
    /\ ret.val # TargetsFrom(components, 1)[1]

\* ============================================================ the search box
MaxBoxLen == 3

\* the characters typed: two of one byte, a wide one, a combining mark
BoxChars == {"a", "b", "W", "z"}

\* SearchBox::new; arg is the box, ret the last call with the box it met
InitBox ==
    /\ components = <<>>
    /\ is_focused = FALSE
    /\ ret = [op |-> "new", status |-> "ok", before |-> SearchBoxNew, val |-> <<>>]
    /\ arg = SearchBoxNew

\* SearchBox::insert
Insert(c) ==
    /\ ret.status = "ok"
    /\ Len(arg.text) < MaxBoxLen
    /\ arg' = insert(arg, c)
    /\ ret' = [op |-> "insert", status |-> "ok", before |-> arg, val |-> <<c>>]
    /\ UNCHANGED <<components, is_focused>>

\* SearchBox::delete
Delete ==
    /\ ret.status = "ok"
    /\ \E r \in {delete(arg)} :
          /\ arg' = r.box
          /\ ret' = [op |-> "delete", status |-> r.status, before |-> arg, val |-> <<>>]
    /\ UNCHANGED <<components, is_focused>>

\* SearchBox::clear
Clear ==
    /\ ret.status = "ok"
    /\ arg' = clear(arg)
    /\ ret' = [op |-> "clear", status |-> "ok", before |-> arg, val |-> <<>>]
    /\ UNCHANGED <<components, is_focused>>

\* SearchBox::consume
Consume ==
    /\ ret.status = "ok"
    /\ \E r \in {consume(arg)} :
          /\ arg' = r.box
          /\ ret' = [op |-> "consume", status |-> "ok", before |-> arg, val |-> r.val]
    /\ UNCHANGED <<components, is_focused>>

NextBox ==
    \/ \E c \in BoxChars : Insert(c)
    \/ Delete
    \/ Clear
    \/ Consume

SpecBox == InitBox /\ [][NextBox]_vars

\* ------------------------------------------------------------ claim C19
\* C19 as stated: after any sequence of insert, delete, clear and consume,
\* with characters of any encoded length, cursor is the number of characters
\* of text; delete on a box that is not empty removes the last character and
\* nothing else, and on an empty box changes nothing; consume returns the
\* text the box held and leaves the text empty and the cursor 0.
C19_SearchBox ==
    /\ ret.status = "ok"
    /\ arg.cursor = Len(arg.text)
    /\ ret.op = "delete" =>
          arg.text = IF ret.before.text = <<>> THEN <<>> ELSE Front(ret.before.text)
    /\ ret.op = "consume" =>
          ret.val = ret.before.text /\ arg.text = <<>> /\ arg.cursor = 0

\* ====================================================== where content starts
\* the widths: the small ones, two usual terminal widths, the default content
\* width, and the top of the u16 range (65535 stands for "full width")
XWidths == {0, 1, 2, 3, 4, 5, 6, 80, 100, 200, 65533, 65534, 65535}

Centerings == {"Left", "Center", "Right"}

\* arg is the call: terminal width, configured width, alignment
InitX ==
    /\ components = <<>>
    /\ is_focused = FALSE
    /\ ret = [op |-> "none"]
    /\ arg \in [terminal_width : XWidths, config_width : XWidths, centering : Centerings]

\* content_x
ContentX(build) ==
    /\ ret.op = "none"
    /\ \E r \in {content_x(arg.terminal_width, arg.config_width, arg.centering, build)} :
          ret' = [op |-> "content_x", build |-> build, status |-> r.status, val |-> r.val]
    /\ UNCHANGED <<components, is_focused, arg>>

NextX == \E build \in Builds : ContentX(build)

SpecX == InitX /\ [][NextX]_vars

\* ------------------------------------------------------------ claim C20
\* C20 as stated: for all widths of the u16 range and every alignment,
\* content_x returns without overflow a value of at least 2: 2 for Left,
\* max(2, terminal_width/2 - config_width/2) for Center and
\* max(2, terminal_width - (config_width + 2)) for Right, the subtractions
\* stopping at 0.
C20_ContentX ==
    ret.op = "content_x" =>
        /\ ret.status = "ok"
        /\ ret.val >= 2
        /\ ret.val =
              CASE arg.centering = "Left" -> 2
                [] arg.centering = "Center" ->
                      Max(2, Max(0, (arg.terminal_width \div 2) - (arg.config_width \div 2)))
                [] arg.centering = "Right" ->
                      Max(2, Max(0, arg.terminal_width - (arg.config_width + 2)))

\* ================================================= the selection in one block
MaxSelectCalls == 3

\* the blocks: those of the documents above that are text, and a block of
\* three lines whose first two lines end and start with a link
SelectBlocks ==
    {b \in BlockMenu \cup LinkBlocks : IsText(b)}
    \cup {new_formatted("Paragraph",
            << <<NewWord(<<"a">>, "Normal"), NewWord(<<"b">>, "Link"), NewWord(<<"u">>, "LinkData")>>,
               <<NewWord(<<"c">>, "Link"), NewWord(<<"v">>, "LinkData"), NewWord(<<"a">>, "Normal")>>,
               <<NewWord(<<"1">>, "FootnoteInline")>> >>)}

\* TextComponent::new / new_formatted; arg is the block before the last call,
\* ret.calls counts the calls made
InitSelect ==
    /\ components \in {<<b>> : b \in SelectBlocks}
    /\ is_focused = FALSE
    /\ ret = [op |-> "none", index |-> 0, ok |-> TRUE, calls |-> 0]
    /\ arg = <<>>

\* TextComponent::visually_select
VisuallySelect(index) ==
    /\ ret.calls < MaxSelectCalls
    /\ \E r \in {visually_select(components[1], index)} :
          /\ components' = <<r.comp>>
          /\ ret' = [op |-> "visually_select", index |-> index, ok |-> r.ok,
                     calls |-> ret.calls + 1]
    /\ arg' = components[1]
    /\ UNCHANGED is_focused

\* TextComponent::deselect
DeselectBlock ==
    /\ ret.calls < MaxSelectCalls
    /\ components' = <<deselect(components[1])>>
    /\ ret' = [op |-> "deselect", index |-> 0, ok |-> TRUE, calls |-> ret.calls + 1]
    /\ arg' = components[1]
    /\ UNCHANGED is_focused

NextSelect ==
    \/ \E index \in 0..MaxIndex : VisuallySelect(index)
    \/ DeselectBlock

SpecSelect == InitSelect /\ [][NextSelect]_vars

\* ------------------------------------------------------------ claim C21
IsLinkKind(w) == w.kind \in {"Link", "FootnoteInline"}

\* the number of the maximal run of link words that position p of flat is in:
\* the count of the run starts up to p
RunNo(flat, p) ==
    Cardinality({q \in 1..p : IsLinkKind(flat[q]) /\ (q = 1 \/ ~IsLinkKind(flat[q - 1]))})

\* C21: a successful visually_select(index) on a block gives the kind
\* Selected to exactly the words of the index-th (0-based) maximal run of
\* consecutive link or footnote-reference words of the content, the runs taken
\* across the lines, and leaves the kind and content of every other word, the
\* lines, the meta, the height and the offsets as they were; it fails when
\* index is not below the number of link-target and footnote-reference
\* entries of the meta.
C21_VisuallySelect ==
    ret.op = "visually_select" =>
        LET before == Flatten(arg.content)
            after  == Flatten(components[1].content)
        IN  /\ ret.ok =>
                  /\ Len(after) = Len(before)
                  /\ \A p \in 1..Len(before) :
                        /\ after[p].content = before[p].content
                        /\ after[p].kind =
                              IF IsLinkKind(before[p]) /\ RunNo(before, p) = ret.index + 1
                              THEN "Selected" ELSE before[p].kind
                  /\ \E p \in 1..Len(before) : after[p].kind # before[p].kind
                  /\ [l \in 1..Len(components[1].content) |-> Len(components[1].content[l])]
                        = [l \in 1..Len(arg.content) |-> Len(arg.content[l])]
                  /\ components[1].meta_info = arg.meta_info
                  /\ components[1].height = arg.height
                  /\ components[1].offset = arg.offset
                  /\ components[1].scroll_offset = arg.scroll_offset
            /\ ret.index >= Len(SelectSeq(arg.meta_info,
                                LAMBDA w : w.kind \in {"LinkData", "FootnoteInline"}))
                  => ~ret.ok

\* the second run selected, a run of two words that lie on two lines
C21_Witness ==
    /\ ret.op = "visually_select"
    /\ ret.ok
    /\ Len(arg.content) = 3
    /\ \E p \in 1..(Len(Flatten(arg.content)) - 1) :
          /\ Flatten(components[1].content)[p].kind = "Selected"
          /\ Flatten(components[1].content)[p + 1].kind = "Selected"
          /\ Flatten(arg.content)[p].kind = "Link"
          /\ Flatten(arg.content)[p + 1].kind = "Link"

\* ==================================================== the rows of the links
MaxIndexBlocks == 2

\* the blocks: the paragraphs that come split into lines, the block of three
\* lines, a paragraph of one line with two links, media blocks
IndexBlocks ==
    {b \in SelectBlocks : Len(b.content) > 1}
    \cup {new("Paragraph", ExpandItems(<<"link", "text", "link">>))}
    \cup {NewImage(h) : h \in 1..MaxImageHeight}

InitIndex ==
    /\ components \in SeqsUpTo(IndexBlocks, MaxIndexBlocks)
    /\ is_focused = FALSE
    /\ ret = NoRet
    /\ arg = <<>>

\* ComponentRoot::link_index_and_height
LinkIndexAndHeight ==
    /\ ret' = [op |-> "link_index_and_height", val |-> link_index_and_height(components)]
    /\ UNCHANGED <<components, is_focused, arg>>

NextIndex ==
    \/ \E index \in 0..MaxIndex : Select(index)
    \/ \E scroll \in 0..MaxScroll : SetScroll(scroll)
    \/ LinkIndexAndHeight

SpecIndex == InitIndex /\ [][NextIndex]_vars

\* ------------------------------------------------------------ claim C22
IsIndexedKind(w) == w.kind \in {"Link", "Selected", "FootnoteInline"}

IndexedIn(words, upto) == Cardinality({q \in 1..upto : IsIndexedKind(words[q])})

\* the indexed words of the blocks before block k
IndexedInBlocks(comps, k) ==
    SumSeq([b \in 1..(k - 1) |->
              IF IsText(comps[b])
              THEN IndexedIn(Flatten(comps[b].content), Len(Flatten(comps[b].content)))
              ELSE 0])

\* the indexed words before word j of line l of block k, in block order, then
\* line order, then word order
IndexedBefore(comps, k, l, j) ==
    IndexedInBlocks(comps, k)
    + SumSeq([m \in 1..(l - 1) |-> IndexedIn(comps[k].content[m], Len(comps[k].content[m]))])
    + IndexedIn(comps[k].content[l], j - 1)

\* C22: link_index_and_height() returns one pair for every content word of
\* kind Link, Selected or FootnoteInline, in block, line and word order; the
\* first components count 0, 1, 2, ...; the second is the y_offset of the
\* block of the word plus the index of its line.
C22_LinkIndexAndHeight ==
    ret.op = "link_index_and_height" =>
        /\ Len(ret.val) = IndexedInBlocks(components, Len(components) + 1)
        /\ \A n \in 1..Len(ret.val) : ret.val[n][1] = n - 1
        /\ \A k \in 1..Len(components) :
              IsText(components[k]) =>
                 \A l \in 1..Len(components[k].content) :
                    \A j \in 1..Len(components[k].content[l]) :
                       IsIndexedKind(components[k].content[l][j]) =>
                          ret.val[IndexedBefore(components, k, l, j) + 1]
                             = <<IndexedBefore(components, k, l, j),
                                 components[k].offset + (l - 1)>>

\* a selected word and links on later lines of a block that stands below a
\* media block, after set_scroll
C22_Witness ==
    /\ ret.op = "link_index_and_height"
    /\ Len(components) = 2
    /\ ~IsText(components[1])
    /\ components[2].offset > 0
    /\ Len(components[2].content) = 3
    /\ \E j \in 1..Len(components[2].content[2]) :
          components[2].content[2][j].kind = "Selected"
    /\ Len(ret.val) = 3
    /\ ret.val[3] = <<2, components[2].offset + 2>>

\* ============================================ the colours of a code block
MaxEvents == 6

\* the code: one line of up to three characters, ended by a line feed
CodeTexts == {<<"n">>, <<"a", "n">>, <<"a", "b", "n">>}

\* a code block with a language tag, as new_formatted builds it
CodeBlockOf(text) ==
    new_formatted("CodeBlock",
        << <<NewWord(<<"r", "s">>, "MetaPLanguage"), NewWord(text, "CodeBlock")>> >>)

EventTypes ==
    {[type |-> "Source", index |-> 0], [type |-> "HighlightEnd", index |-> 0],
     [type |-> "HighlightStart", index |-> 0], [type |-> "HighlightStart", index |-> 1]}

\* the number of events of a type among the first i
CountType(es, i, type) == Cardinality({q \in 1..i : es[q].type = type})

\* the event streams of the highlighter for a text of n characters: one
\* source range for each character, in order; every HighlightEnd closes a
\* HighlightStart and every HighlightStart is closed
EventStreams(n) ==
    {[i \in 1..Len(es) |->
        [type |-> es[i].type, index |-> es[i].index,
         start |-> IF es[i].type = "Source" THEN CountType(es, i, "Source") - 1 ELSE 0,
         end   |-> IF es[i].type = "Source" THEN CountType(es, i, "Source") ELSE 0]] :
     es \in {x \in SeqsUpTo(EventTypes, MaxEvents) :
                /\ CountType(x, Len(x), "Source") = n
                /\ CountType(x, Len(x), "HighlightStart") = CountType(x, Len(x), "HighlightEnd")
                /\ \A i \in 1..Len(x) :
                      CountType(x, i, "HighlightEnd") <= CountType(x, i, "HighlightStart")}}

InitEvents ==
    /\ components \in {<<CodeBlockOf(text)>> : text \in CodeTexts}
    /\ is_focused = FALSE
    /\ ret = [op |-> "none"]
    /\ arg = <<>>

\* transform_codeblock on the block, with the events the highlighter answers
TransformCodeblock(events) ==
    /\ ret.op = "none"
    /\ \E r \in {transform_codeblock(components[1],
                                     [kind |-> "Highlighted", events |-> events])} :
          components' = <<r.comp>>
    /\ ret' = [op |-> "transform_codeblock", events |-> events]
    /\ arg' = components[1]
    /\ UNCHANGED is_focused

\* the highlighter answers once, for the block as it was built
NextEvents ==
    /\ ret.op = "none"
    /\ \E events \in EventStreams(Len(content_joined(components[1]))) :
          TransformCodeblock(events)

SpecEvents == InitEvents /\ [][NextEvents]_vars

\* ------------------------------------------------------------ claim C23
\* the highlight ids that are open after the first i events, innermost last
RECURSIVE OpenAt(_, _)
OpenAt(events, i) ==
    IF i = 0 THEN <<>>
    ELSE LET open == OpenAt(events, i - 1)
         IN  CASE events[i].type = "HighlightStart" -> Append(open, events[i].index)
               [] events[i].type = "HighlightEnd" ->
                     IF open = <<>> THEN open ELSE SubSeq(open, 1, Len(open) - 1)
               [] OTHER -> open

\* the colour of the innermost open highlight, the default when none is open
InnermostColor(events, i) ==
    LET open == OpenAt(events, i)
    IN  IF open = <<>> THEN "CodeBlock"
        ELSE [k \in 0..1 |-> IF k = 0 THEN "CodeBlockPalette0" ELSE "CodeBlockPalette1"][open[Len(open)]]

\* the place in the stream of the j-th source range
SourceAt(events, j) ==
    CHOOSE i \in 1..Len(events) :
        events[i].type = "Source" /\ CountType(events, i, "Source") = j

\* C23 as stated: for every event stream, nested starts included, the colour
\* of the word cut from a source range is the palette colour of the innermost
\* HighlightStart that is not closed yet, and the default colour when none is
\* open.
C23_InnermostOpenColor ==
    ret.op = "transform_codeblock" =>
        /\ Len(components[1].content) = 2
        /\ Len(components[1].content[1]) = Len(content_joined(arg))
        /\ \A j \in 1..Len(components[1].content[1]) :
              components[1].content[1][j].kind
                 = InnermostColor(ret.events, SourceAt(ret.events, j))

\* ------------------------------------------------------------ claim C24
\* a transform that follows a transform of the same width in the same build,
\* both returning
SameWidthAgain ==
    /\ ret.op = "transform"
    /\ ret.status = "ok"
    /\ ret'.op = "transform"
    /\ ret'.status = "ok"
    /\ ret'.width = ret.width
    /\ ret'.build = ret.build

\* C24 as stated: a second transform(width) with the same width leaves the
\* content and the height of the block as the first call left them, for
\* every kind of block.
C24_TransformTwice ==
    [][SameWidthAgain =>
          /\ components'[1].content = components[1].content
          /\ components'[1].height = components[1].height]_vars

\* ------------------------------------------------------------ claim C25
\* C25 as stated: for every sequence of indents of the items of a List
\* block, an indent that falls in several steps after one rise included, the
\* stack of counters is not empty when an ordered item is numbered: the
\* transform never stops with "Stack is empty".
C25_StackNeverEmpty ==
    ret.op = "transform" => ret.status # "panic"

\* ------------------------------------------------------------ claim C26
\* C26 as stated: transform(width) of a Paragraph returns, with its list of
\* lines, for every width >= 1 and every sequence of words, words wider than
\* the wrap width width - 1 included.
C26_ParagraphTerminates ==
    (ret.op = "transform" /\ components[1].kind = "Paragraph" /\ ret.width >= 1)
        => ret.status = "ok"

\* ------------------------------------------------------------ claim C27
\* the display width of a line: the sum of the display widths of its words
LineWidth(line) == SumSeq([k \in 1..Len(line) |-> display_width(line[k].content)])

\* C27 as stated: every line returned by word_wrapping(words, w, hyphen) for
\* w >= 1 has a display width of at most w, inserted hyphens counted, for
\* every sequence of words, words that begin with a hard line break and
\* characters two cells wide included.
C27_LinesFitWidth ==
    (ret.op = "word_wrapping" /\ ret.status = "ok" /\ arg.width >= 1)
        => \A l \in 1..Len(ret.lines) : LineWidth(ret.lines[l]) <= arg.width

\* ------------------------------------------------------------ claim C28
\* C28 as stated: after a select(i) that returns an error no block is
\* focused and no content word has the kind Selected.
C28_FailedSelectClears ==
    (ret.op = "select" /\ ~ret.ok)
        => /\ \A k \in 1..Len(components) : ~components[k].focused
           /\ NoneSelected(components)

\* ------------------------------------------------------------ claim C29
\* the table as it was handed to the transform
TableBefore == MakeTable(arg.cells, arg.marks)

\* the width of the widest cell of column c of the table as it was
WidestCell(c) ==
    LET content == TableBefore.content
        rows == Len(content) \div arg.marks
    IN  Max(0, CHOOSE m \in {content_entry_len(content[(r - 1) * arg.marks + c]) : r \in 1..rows} :
                  \A r \in 1..rows : content_entry_len(content[(r - 1) * arg.marks + c]) <= m)

\* C29: when transform_table takes the overflow branch with a target width of
\* at least column_count, some column is wider than
\* (width - column_count) / column_count, so the set of overflowing columns
\* is not empty and the assertion on it holds.
C29_SomeColumnOverflows ==
    (ret.op = "transform" /\ ret.branch = "overflow" /\ ret.width >= arg.marks)
        => /\ \E c \in 1..arg.marks : WidestCell(c) > (ret.width - arg.marks) \div arg.marks
           /\ ret.status = "panic" => ret.underflow

\* a table of two columns and two rows that does not fit, one column below
\* the threshold and one above
C29_Witness ==
    /\ ret.op = "transform"
    /\ ret.branch = "overflow"
    /\ ret.status = "ok"
    /\ arg.marks = 2
    /\ Len(arg.cells) = 4
    /\ ret.width >= arg.marks
    /\ \E c, d \in 1..2 :
          /\ WidestCell(c) > (ret.width - 2) \div 2
          /\ WidestCell(d) <= (ret.width - 2) \div 2

\* ==================================== select and deselect from construction
\* ComponentRoot::new; arg keeps the document as it was built
InitFresh ==
    /\ components \in Documents
    /\ is_focused = FALSE
    /\ ret = NoRet
    /\ arg = components

NextFresh ==
    \/ \E index \in 0..MaxIndex : Select(index)
    \/ Deselect

SpecFresh == InitFresh /\ [][NextFresh]_vars

\* ------------------------------------------------------------ claim C30
\* the content words of the document
ContentWords(comps) ==
    UNION {{Flatten(comps[k].content)[m] : m \in 1..Len(Flatten(comps[k].content))} :
              k \in 1..Len(comps)}

\* C30: in every state reached from a fresh document by select and deselect
\* calls, a content word has a saved kind exactly when its kind is Selected,
\* and the saved kind is never Selected; the kinds under the selection are
\* those of construction, so after a deselect every word has the kind it was
\* built with.
C30_SavedIffSelected ==
    /\ \A w \in ContentWords(components) :
          /\ (w.prev # "None") <=> (w.kind = "Selected")
          /\ w.prev # "Selected"
    /\ RestingKinds(components) = Kinds(arg)
    /\ ret.op \in {"deselect", "deselect_after_select"} => Kinds(components) = Kinds(arg)

\* a deselect that follows a select, in a document of two different blocks
\* that both hold links
C30_Witness ==
    /\ ret.op = "deselect_after_select"
    /\ Len(components) = 2
    /\ \A k \in 1..2 : IsText(components[k]) /\ num_links_words(arg[k]) >= 1
    /\ Kinds(components) = Kinds(arg)
    /\ components[1].content # components[2].content

=============================================================================
